---- MODULE Spec2Model ----
(***************************************************************************)
(* Scenario execution engine of the universal tester agent: the budget     *)
(* enforcer (runner/budget_enforcer.py), the tester strategies             *)
(* (agents/strategies) and the conversation driver (runner/run.py, main).  *)
(*                                                                         *)
(* Units: latencies are milliseconds; costs are micro-dollars, so that     *)
(* estimate_turn_cost(m, r) = ((m + r) / 1000.0) * 0.001 USD is m + r.     *)
(* The running mean total_latency_ms / turns_used is compared with the     *)
(* limit by cross multiplication, which is the exact value of the quotient *)
(* comparison for turns_used > 0.                                          *)
(***************************************************************************)
EXTENDS Integers, Sequences, FiniteSets, TLC

(***************************************************************************)
(* Bounds of the exploration.                                              *)
(***************************************************************************)
MaxCalls == 4          \* record_turn calls made on one enforcer in SpecBE
MaxBudgetTurns == 3    \* largest budgets.max_turns of a scenario
MaxConvTurns == 5      \* largest conversation.max_turns of a scenario
UserMsgLen == 10       \* len(user_msg) of every tester message
SuiteLen == 2          \* scenarios of a suite in SpecBatch
MaxSeedOps == 3        \* operations made on one seed manager in SpecSeed
MaxMessages == 4       \* messages of a transcript given to run_hard_assertions
MaxRules == 3          \* rules of an oracle given to run_hard_assertions

VARIABLES
    be,                \* the BudgetEnforcer of the running scenario
    calls,             \* log of the calls made on the object a harness exercises
    suite,             \* the scenario definitions found in the suite directory
    env,               \* what the agent and the judge can answer in this run
    pc,                \* position of main: "for", "while", "send", "eval", "done", "crashed"
    idx,               \* index in suite of the scenario of the current iteration
    messages,          \* transcript of the running scenario
    turn,              \* main's local turn
    last_resp,         \* main's local last_resp
    strategy,          \* the strategy instance of the running scenario
    budget_violations, \* main's local budget_violations
    trace,             \* calls main made to its collaborators in this scenario
    sessions,          \* main's local sessions
    written,           \* results.json has been written
    judge,             \* the UnifiedJudge main built, by its configuration
    sm,                \* the global SeedManager
    rng,               \* the generator of the random module
    scenario_managers  \* the ScenarioSeedManager objects created so far

vars == <<be, calls, suite, env, pc, idx, messages, turn, last_resp, strategy,
          budget_violations, trace, sessions, written, judge, sm, rng,
          scenario_managers>>

startupvars == <<judge, sm, rng, scenario_managers>>

drivervars == <<suite, env, pc, idx, messages, turn, last_resp, strategy,
                budget_violations, trace, sessions, written>>

(***************************************************************************)
(* runner/budget_enforcer.py                                               *)
(***************************************************************************)
TurnViolation == "Turn limit exceeded"
LatencyViolation == "Latency limit exceeded"
CostViolation == "Cost limit exceeded"

BudgetMetrics == [turns_used |-> 0, total_latency_ms |-> 0, estimated_cost_usd |-> 0]

BudgetEnforcer(budget_config) ==
    [max_turns |-> budget_config.max_turns,
     max_latency_ms_avg |-> budget_config.max_latency_ms_avg,
     max_cost_usd_per_session |-> budget_config.max_cost_usd_per_session,
     metrics |-> BudgetMetrics,
     violations |-> <<>>]

\* add_turn without "self.turns_used += 1"
add_turn_uncounted(m, latency_ms, estimated_cost) ==
    [turns_used |-> m.turns_used,
     total_latency_ms |-> m.total_latency_ms + latency_ms,
     estimated_cost_usd |-> m.estimated_cost_usd + estimated_cost]

add_turn(m, latency_ms, estimated_cost) ==
    [turns_used |-> m.turns_used + 1,
     total_latency_ms |-> m.total_latency_ms + latency_ms,
     estimated_cost_usd |-> m.estimated_cost_usd + estimated_cost]

\* get_average_latency_ms() > limit
average_latency_exceeds(m, limit) ==
    IF m.turns_used = 0 THEN 0 > limit
    ELSE m.total_latency_ms > limit * m.turns_used

check_turn_limit_strict(b) ==
    IF b.metrics.turns_used > b.max_turns
    THEN [be |-> [b EXCEPT !.violations = Append(@, TurnViolation)], ok |-> FALSE]
    ELSE [be |-> b, ok |-> TRUE]

check_turn_limit(b) ==
    IF b.metrics.turns_used >= b.max_turns
    THEN [be |-> [b EXCEPT !.violations = Append(@, TurnViolation)], ok |-> FALSE]
    ELSE [be |-> b, ok |-> TRUE]

\* check_latency_limit keeping its violation only while the average exceeds
\* the limit
check_latency_limit_current(b) ==
    IF average_latency_exceeds(b.metrics, b.max_latency_ms_avg)
    THEN [be |-> [b EXCEPT !.violations = Append(@, LatencyViolation)], ok |-> FALSE]
    ELSE [be |-> [b EXCEPT !.violations =
                      SelectSeq(@, LAMBDA v : v # LatencyViolation)],
          ok |-> TRUE]

check_latency_limit(b) ==
    IF average_latency_exceeds(b.metrics, b.max_latency_ms_avg)
    THEN [be |-> [b EXCEPT !.violations = Append(@, LatencyViolation)], ok |-> FALSE]
    ELSE [be |-> b, ok |-> TRUE]

check_cost_limit(b) ==
    IF b.metrics.estimated_cost_usd > b.max_cost_usd_per_session
    THEN [be |-> [b EXCEPT !.violations = Append(@, CostViolation)], ok |-> FALSE]
    ELSE [be |-> b, ok |-> TRUE]

\* record_turn written as "return check_turn_limit() and check_latency_limit()
\* and check_cost_limit()": a failing check hides the later ones.
record_turn_short_circuit(b, latency_ms, estimated_cost) ==
    LET b1 == [b EXCEPT !.metrics = add_turn(@, latency_ms, estimated_cost)]
        t == check_turn_limit(b1)
        l == IF t.ok THEN check_latency_limit(t.be) ELSE [be |-> t.be, ok |-> FALSE]
        c == IF l.ok THEN check_cost_limit(l.be) ELSE [be |-> l.be, ok |-> FALSE]
    IN  [be |-> c.be, ok |-> c.ok]

record_turn(b, latency_ms, estimated_cost) ==
    LET b1 == [b EXCEPT !.metrics = add_turn(@, latency_ms, estimated_cost)]
        turn_ok == check_turn_limit(b1)
        latency_ok == check_latency_limit(turn_ok.be)
        cost_ok == check_cost_limit(latency_ok.be)
    IN  [be |-> cost_ok.be, ok |-> turn_ok.ok /\ latency_ok.ok /\ cost_ok.ok]

get_status(b) ==
    [turns_used |-> b.metrics.turns_used,
     max_turns |-> b.max_turns,
     violations |-> b.violations,
     within_budget |-> Len(b.violations) = 0]

estimate_turn_cost(message_length, response_length) ==
    message_length + response_length

\* should_continue without its turn test
should_continue_violations_only(b) ==
    Len(b.violations) = 0

should_continue(b) ==
    Len(b.violations) = 0 /\ b.metrics.turns_used < b.max_turns

(***************************************************************************)
(* agents/strategies: the tester strategies the registry knows.  An agent  *)
(* response is seen by a strategy through its keyword heuristics only, so  *)
(* a response carries the class of its text:                               *)
(*   "cue"   the keyword strategies find something to answer,              *)
(*   "goal"  the goal-achievement heuristic of a dynamic strategy matches, *)
(*   "esc"   an escalation trigger of the customer-service strategy,       *)
(*   "plain" none of these.                                                *)
(***************************************************************************)
RegisteredStrategies ==
    {"FlowIntent", "ToolHappyPath", "MemoryCarry", "ToolError",
     "DynamicAI", "DynamicFinancial", "DynamicCustomerService"}

NoMessage == "none"

NewStrategy(name) ==
    [name |-> name, turn_count |-> 0, escalation_level |-> 0, detected_domain |-> FALSE]

\* StrategyRegistry.get, and main's fallback to get_default()
registry_get(strategy_name) ==
    IF strategy_name \in RegisteredStrategies
    THEN NewStrategy(strategy_name)
    ELSE NewStrategy("FlowIntent")

\* first_message of every strategy returns conversation.initial_user_msg; the
\* dynamic strategies also reset their counters
first_message(st, sc) ==
    [msg |-> "initial_user_msg",
     st |-> [st EXCEPT !.turn_count = 0, !.escalation_level = 0, !.detected_domain = FALSE]]

\* FlowIntentStrategy, ToolHappyPathStrategy, ToolErrorStrategy: a message when
\* one of the keyword heuristics matches the response, None otherwise
FlowIntent_next_message(st, last_agent_response) ==
    [msg |-> IF last_agent_response.kind = "cue" THEN "next" ELSE NoMessage, st |-> st]

ToolHappyPath_next_message(st, last_agent_response) ==
    [msg |-> IF last_agent_response.kind = "cue" THEN "next" ELSE NoMessage, st |-> st]

ToolError_next_message(st, last_agent_response) ==
    [msg |-> IF last_agent_response.kind = "cue" THEN "next" ELSE NoMessage, st |-> st]

MemoryCarry_next_message(st, last_agent_response) ==
    [msg |-> IF st.turn_count + 1 \in 1..3 THEN "next" ELSE NoMessage,
     st |-> [st EXCEPT !.turn_count = @ + 1]]

DynamicAI_next_message(st, last_agent_response) ==
    [msg |-> "next", st |-> [st EXCEPT !.turn_count = @ + 1]]

DynamicFinancial_next_message(st, last_agent_response) ==
    [msg |-> "next",
     st |-> [st EXCEPT !.turn_count = @ + 1, !.detected_domain = TRUE]]

DynamicCustomerService_next_message(st, last_agent_response) ==
    [msg |-> "next",
     st |-> [st EXCEPT !.turn_count = @ + 1, !.detected_domain = TRUE,
                       !.escalation_level =
                           IF last_agent_response.kind = "esc" THEN @ + 1 ELSE @]]

next_message(st, last_agent_response, sc) ==
    CASE st.name = "FlowIntent" -> FlowIntent_next_message(st, last_agent_response)
      [] st.name = "ToolHappyPath" -> ToolHappyPath_next_message(st, last_agent_response)
      [] st.name = "ToolError" -> ToolError_next_message(st, last_agent_response)
      [] st.name = "MemoryCarry" -> MemoryCarry_next_message(st, last_agent_response)
      [] st.name = "DynamicAI" -> DynamicAI_next_message(st, last_agent_response)
      [] st.name = "DynamicFinancial" ->
            DynamicFinancial_next_message(st, last_agent_response)
      [] st.name = "DynamicCustomerService" ->
            DynamicCustomerService_next_message(st, last_agent_response)

\* text class of the last assistant message of the conversation
RECURSIVE last_assistant_msg(_)
last_assistant_msg(conversation) ==
    IF conversation = <<>> THEN "plain"
    ELSE IF conversation[Len(conversation)].role = "assistant"
         THEN conversation[Len(conversation)].content
         ELSE last_assistant_msg(SubSeq(conversation, 1, Len(conversation) - 1))

FlowIntent_should_continue(st, conversation, max_turns) ==
    Len(conversation) < max_turns

\* the messages of the conversation carry no "structured" key, so the
\* tool-success test of this strategy never holds
ToolHappyPath_should_continue(st, conversation, max_turns) ==
    ~(Len(conversation) >= max_turns)

MemoryCarry_should_continue(st, conversation, max_turns) ==
    ~(Len(conversation) >= max_turns) /\ ~(Len(conversation) >= 3)

ToolError_should_continue(st, conversation, max_turns) ==
    ~(Len(conversation) >= max_turns) /\ ~(Len(conversation) >= 4)

DynamicAI_should_continue(st, conversation, max_turns) ==
    ~(Len(conversation) >= max_turns) /\ ~(last_assistant_msg(conversation) = "goal")

\* no goal is recognised before next_message has detected the domain
DynamicFinancial_should_continue(st, conversation, max_turns) ==
    /\ ~(Len(conversation) >= max_turns)
    /\ ~(st.detected_domain /\ last_assistant_msg(conversation) = "goal")

DynamicCustomerService_should_continue(st, conversation, max_turns) ==
    /\ ~(Len(conversation) >= max_turns)
    /\ ~(st.escalation_level >= 2)
    /\ ~(st.detected_domain /\ last_assistant_msg(conversation) = "goal")

strategy_should_continue(st, conversation, sc) ==
    LET max_turns == sc.conversation.max_turns
    IN  CASE st.name = "FlowIntent" -> FlowIntent_should_continue(st, conversation, max_turns)
          [] st.name = "ToolHappyPath" ->
                ToolHappyPath_should_continue(st, conversation, max_turns)
          [] st.name = "MemoryCarry" ->
                MemoryCarry_should_continue(st, conversation, max_turns)
          [] st.name = "ToolError" -> ToolError_should_continue(st, conversation, max_turns)
          [] st.name = "DynamicAI" -> DynamicAI_should_continue(st, conversation, max_turns)
          [] st.name = "DynamicFinancial" ->
                DynamicFinancial_should_continue(st, conversation, max_turns)
          [] st.name = "DynamicCustomerService" ->
                DynamicCustomerService_should_continue(st, conversation, max_turns)

(***************************************************************************)
(* agents/http_adapter.py: the transport retries a failing request and     *)
(* raises the last exception when every attempt has failed.                *)
(***************************************************************************)
retry_attempts == 3

\* failed: the number of consecutive attempts that fail from the first one on
make_request_with_retries(failed) ==
    IF failed < retry_attempts THEN "response" ELSE "raise"

(***************************************************************************)
(* judges: schema_judge.heuristic_soft_metrics, llm_judge.LLMJudge and     *)
(* unified_judge.UnifiedJudge.  The scores of this section are in          *)
(* thousandths (1000 is 1.0) and the hybrid weights in tenths (10 is 1.0), *)
(* so a weighted sum of scores is exact.  A transcript is seen by the      *)
(* heuristics through the word tokens and the digits of its assistant      *)
(* messages; an output of the external judge is seen by the parser through *)
(* its JSON shape and, for an object, the value of each score key.         *)
(***************************************************************************)
ScoreKeys == <<"relevance", "completeness", "groundedness", "confidence">>

\* schema_judge.heuristic_soft_metrics
heuristic_soft_metrics(ug_tokens, at_tokens, has_numbers, promise_to_pay) ==
    [relevance |->
        IF ug_tokens # {}
        THEN (Cardinality(ug_tokens \cap at_tokens) * 1000)
                 \div (IF Cardinality(ug_tokens) >= 1 THEN Cardinality(ug_tokens) ELSE 1)
        ELSE 800,
     completeness |->
        CASE promise_to_pay = "absent" -> 700
          [] promise_to_pay = "complete" -> 900
          [] OTHER -> 600,
     groundedness |-> IF has_numbers THEN 850 ELSE 800]

\* a JSON value of a score key
Num(v) == [t |-> "number", v |-> v]
Str(v) == [t |-> "numeric string", v |-> v]
Word == [t |-> "string", v |-> 0]
Null == [t |-> "null", v |-> 0]
Absent == [t |-> "absent", v |-> 0]

\* float(x) of Python: the value, or the exception it raises
float(x) ==
    CASE x.t \in {"number", "numeric string"} -> [raised |-> "none", v |-> x.v]
      [] x.t = "string" -> [raised |-> "ValueError", v |-> 0]
      [] OTHER -> [raised |-> "TypeError", v |-> 0]

\* max(0.0, min(1.0, v))
clamp(v) == IF v > 1000 THEN 1000 ELSE IF v < 0 THEN 0 ELSE v

\* LLMJudge._get_fallback_evaluation: the JSON text of the neutral scores
fallback_evaluation ==
    [kind |-> "object",
     fields |-> [k \in {"relevance", "completeness", "groundedness"} |-> Num(500)]
                   @@ [k \in {"confidence"} |-> Num(0)]]

\* LLMJudge._get_llm_evaluation: outcome is what the call to the external judge
\* does, an exception or a text
get_llm_evaluation(outcome) ==
    IF outcome.kind = "exception" THEN fallback_evaluation ELSE outcome

\* the dictionary of the except branch of _parse_evaluation_result
parse_failed ==
    [relevance |-> 500, completeness |-> 500, groundedness |-> 500, confidence |-> 0]

\* lines 310-314: the loop over the score keys, left at the first key whose
\* float() raises
normalize(fields) ==
    LET bad == {i \in 1..Len(ScoreKeys) :
                   /\ fields[ScoreKeys[i]].t # "absent"
                   /\ float(fields[ScoreKeys[i]]).raised # "none"}
        first == CHOOSE i \in bad : \A j \in bad : i <= j
    IN  [raised |-> IF bad = {} THEN "none" ELSE float(fields[ScoreKeys[first]]).raised,
         result |-> [k \in DOMAIN fields |->
                        IF fields[k].t = "absent" THEN 500
                        ELSE clamp(float(fields[k]).v)]]

\* LLMJudge._parse_evaluation_result: json.loads raises JSONDecodeError on a
\* text that is no JSON; the except clause catches JSONDecodeError, ValueError
\* and KeyError, everything else leaves the method
parse_evaluation_result(evaluation) ==
    CASE evaluation.kind \in {"no json", "invalid json"} ->
            [raised |-> "none", result |-> parse_failed]
      [] evaluation.kind = "not an object" ->
            [raised |-> "TypeError", result |-> parse_failed]
      [] OTHER ->
            LET n == normalize(evaluation.fields)
            IN  CASE n.raised = "none" -> n
                  [] n.raised = "ValueError" -> [raised |-> "none", result |-> parse_failed]
                  [] OTHER -> [raised |-> n.raised, result |-> parse_failed]

\* LLMJudge.evaluate_response: the JudgeResult, or the exception that leaves it
evaluate_response(outcome) ==
    parse_evaluation_result(get_llm_evaluation(outcome))

\* Python's None, for an optional record
None == [none |-> TRUE]

NoKey == "None"

JudgeTypes == {"JudgeType.OPENAI", "JudgeType.ANTHROPIC", "JudgeType.AZURE"}

\* judge_type_map of _initialize_judge
judge_type_map(llm_type) ==
    CASE llm_type = "openai" -> "JudgeType.OPENAI"
      [] llm_type = "anthropic" -> "JudgeType.ANTHROPIC"
      [] llm_type = "azure" -> "JudgeType.AZURE"
      [] OTHER -> "JudgeType.OPENAI"

LLMJudgeConfig(judge_type, api_key) == [judge_type |-> judge_type, api_key |-> api_key]

\* LLMJudge.__init__ and _setup_client: the exception raised, if any.  The
\* client classes belong to the openai and anthropic packages: lib.installed
\* tells whether the import succeeds, lib.requires_key whether the constructor
\* of the client rejects api_key = None
setup_client(config, lib) ==
    CASE config.judge_type \notin JudgeTypes -> "ValueError"
      [] ~lib.installed -> "ImportError"
      [] config.api_key = NoKey /\ lib.requires_key -> "ClientError"
      [] OTHER -> "none"

\* UnifiedJudgeConfig with its __post_init__
UnifiedJudgeConfig(mode, llm_config, hybrid_weights) ==
    [mode |-> mode,
     llm_config |-> llm_config,
     hybrid_weights |-> IF hybrid_weights = None
                        THEN [heuristic |-> 5, llm |-> 5]
                        ELSE hybrid_weights]

NoJudge == UnifiedJudgeConfig("none", None, None)

\* UnifiedJudge.__init__: the judge, or the exception raised
UnifiedJudge(config, lib) ==
    IF config.mode \in {"llm", "hybrid"}
    THEN IF config.llm_config = None
         THEN [raised |-> "ValueError", config |-> config]
         ELSE [raised |-> setup_client(config.llm_config, lib), config |-> config]
    ELSE [raised |-> "none", config |-> config]

\* UnifiedJudgeFactory
create_heuristic_judge(lib) ==
    UnifiedJudge(UnifiedJudgeConfig("heuristic", None, None), lib)

create_llm_judge(llm_config, lib) ==
    UnifiedJudge(UnifiedJudgeConfig("llm", llm_config, None), lib)

create_hybrid_judge(llm_config, weights, lib) ==
    UnifiedJudge(UnifiedJudgeConfig("hybrid", llm_config, weights), lib)

\* config_dict.llm_config is None when the file has no llm_config entry:
\* LLMJudgeConfig(**{}) lacks its required arguments
create_from_config(config_dict, lib) ==
    IF config_dict.mode \in {"llm", "hybrid"} /\ config_dict.llm_config = None
    THEN [raised |-> "TypeError",
          config |-> UnifiedJudgeConfig(config_dict.mode, None, config_dict.hybrid_weights)]
    ELSE UnifiedJudge(UnifiedJudgeConfig(config_dict.mode,
                                         IF config_dict.mode \in {"llm", "hybrid"}
                                         THEN config_dict.llm_config ELSE None,
                                         config_dict.hybrid_weights), lib)

\* what one evaluation is about: req.ug_tokens are the word tokens of the
\* scenario's user goal, req.at_tokens those of the assistant messages,
\* req.has_numbers whether these hold a digit, req.promise_to_pay the state of
\* that entry of the structured payload, req.outcome what the call to the
\* external judge does
SoftMetricKeys == {"relevance", "completeness", "groundedness"}

JudgeResult(parsed) ==
    [relevance |-> parsed.relevance,
     completeness |-> parsed.completeness,
     groundedness |-> parsed.groundedness,
     confidence |-> parsed.confidence]

\* _evaluate_hybrid with the two judges averaged
evaluate_hybrid_unweighted(config, req) ==
    LET heuristic_metrics == heuristic_soft_metrics(req.ug_tokens, req.at_tokens,
                                                    req.has_numbers, req.promise_to_pay)
        llm_result == evaluate_response(req.outcome)
        llm_metrics == [k \in SoftMetricKeys |-> llm_result.result[k]]
        combined_metrics ==
            [k \in SoftMetricKeys |-> (heuristic_metrics[k] * 5 + llm_metrics[k] * 5) \div 10]
    IN  [raised |-> llm_result.raised,
         soft_metrics |-> combined_metrics,
         judge_mode |-> "hybrid",
         llm_result |-> JudgeResult(llm_result.result),
         hybrid_breakdown |-> [heuristic |-> heuristic_metrics,
                               llm |-> llm_metrics,
                               combined |-> combined_metrics]]

\* UnifiedJudge._evaluate_hybrid: the UnifiedJudgeResult, or the exception that
\* leaves the external judge's parser
evaluate_hybrid(config, req) ==
    LET heuristic_metrics == heuristic_soft_metrics(req.ug_tokens, req.at_tokens,
                                                    req.has_numbers, req.promise_to_pay)
        llm_result == evaluate_response(req.outcome)
        llm_metrics == [k \in SoftMetricKeys |-> llm_result.result[k]]
        weights == config.hybrid_weights
        combined_metrics ==
            [k \in SoftMetricKeys |->
                (heuristic_metrics[k] * weights.heuristic
                 + llm_metrics[k] * weights.llm) \div 10]
    IN  [raised |-> llm_result.raised,
         soft_metrics |-> combined_metrics,
         judge_mode |-> "hybrid",
         llm_result |-> JudgeResult(llm_result.result),
         hybrid_breakdown |-> [heuristic |-> heuristic_metrics,
                               llm |-> llm_metrics,
                               combined |-> combined_metrics]]

evaluate_llm(config, req) ==
    LET llm_result == evaluate_response(req.outcome)
    IN  [raised |-> llm_result.raised,
         soft_metrics |-> [k \in SoftMetricKeys |-> llm_result.result[k]],
         judge_mode |-> "llm",
         llm_result |-> JudgeResult(llm_result.result),
         hybrid_breakdown |-> None]

evaluate_heuristic(config, req) ==
    [raised |-> "none",
     soft_metrics |-> heuristic_soft_metrics(req.ug_tokens, req.at_tokens,
                                             req.has_numbers, req.promise_to_pay),
     judge_mode |-> "heuristic",
     llm_result |-> None,
     hybrid_breakdown |-> None]

\* UnifiedJudge.evaluate
evaluate(config, req) ==
    CASE config.mode = "heuristic" -> evaluate_heuristic(config, req)
      [] config.mode = "llm" -> evaluate_llm(config, req)
      [] OTHER -> evaluate_hybrid(config, req)

(***************************************************************************)
(* runner/seed_manager.py.  Seeds are naturals and NoSeed stands for None. *)
(* _hash_to_seed is MD5 cut to 32 bits; the model keeps that it is a fixed *)
(* function of the text alone and computes a small multiplicative hash of  *)
(* a code of the text.  The generator of the random module is process-wide *)
(* state: the seed it was last given and the number of draws made since.   *)
(***************************************************************************)
NoSeed == -1

NoString == "None"

ScenarioIds == {"S1", "S2"}

\* the text f"{current_seed}_{scenario_id}" and a custom seed string, as a number
scenario_text(current_seed, scenario_id) ==
    current_seed * 4 + (IF scenario_id = "S1" THEN 1 ELSE 2)

custom_text(custom_seed) ==
    IF custom_seed = "alpha" THEN 3 ELSE 7

hash_to_seed(text) == (text * 37 + 11) % 1021

\* random.seed(seed)
random_seed(seed) == [seed |-> seed, draws |-> 0]

\* random.randint / choice / uniform / shuffle: one draw
random_draw(r) == [r EXCEPT !.draws = @ + 1]

\* SeedManager.__init__ with _set_initial_seed; now is int(time.time() * 1000) %
\* 2**32 at the time of the call
SeedManager(config, now) ==
    LET current_seed ==
            IF config.seed # NoSeed THEN config.seed
            ELSE IF config.auto_seed
                 THEN IF config.seed_source = "timestamp" THEN now
                      ELSE IF config.seed_source = "custom"
                              /\ config.custom_seed # NoString
                           THEN hash_to_seed(custom_text(config.custom_seed))
                           ELSE now
                 ELSE NoSeed
    IN  [config |-> config,
         original_seed |-> config.seed,
         current_seed |-> current_seed,
         seed_history |-> IF current_seed # NoSeed THEN <<current_seed>> ELSE <<>>]

\* the generator after SeedManager.__init__: seeded when a seed was set,
\* otherwise as the process found it
initial_rng(manager, r) ==
    IF manager.current_seed # NoSeed THEN random_seed(manager.current_seed) ELSE r

\* get_scenario_seed computed from the seed the generator was last given
get_scenario_seed_of_generator(manager, r, scenario_id) ==
    [ret |-> hash_to_seed(scenario_text(r.seed, scenario_id)), rng |-> r]

\* get_scenario_seed: the value returned and the generator afterwards; without
\* a seed the value is random.randint(0, 2**32 - 1), one of any
get_scenario_seed(manager, r, scenario_id) ==
    IF manager.current_seed = NoSeed
    THEN [ret |-> hash_to_seed(r.seed * 64 + r.draws), rng |-> random_draw(r)]
    ELSE [ret |-> hash_to_seed(scenario_text(manager.current_seed, scenario_id)),
          rng |-> r]

\* set_scenario_seed: the manager and the generator afterwards
set_scenario_seed(manager, r, scenario_id) ==
    LET g == get_scenario_seed(manager, r, scenario_id)
    IN  [sm |-> [manager EXCEPT !.seed_history = Append(@, g.ret)],
         rng |-> random_seed(g.ret)]

reset_to_base_seed(manager, r) ==
    IF manager.current_seed # NoSeed THEN random_seed(manager.current_seed) ELSE r

\* ScenarioSeedManager.__init__, by create_scenario_seed_manager
ScenarioSeedManager(manager, r, scenario_id) ==
    LET g == get_scenario_seed(manager, r, scenario_id)
    IN  [child |-> [scenario_id |-> scenario_id,
                    scenario_seed |-> g.ret,
                    local_seed |-> g.ret],
         rng |-> g.rng]

set_local_seed(child, seed) ==
    [child |-> [child EXCEPT !.local_seed = seed], rng |-> random_seed(seed)]

reset_to_scenario_seed(child) ==
    [child |-> [child EXCEPT !.local_seed = child.scenario_seed],
     rng |-> random_seed(child.scenario_seed)]

(***************************************************************************)
(* runner/run.py                                                           *)
(***************************************************************************)
RequiredFields == {"id", "title", "preconditions", "goal", "conversation", "oracle"}

ScenarioFields ==
    RequiredFields \cup {"dsl_version", "conversation.initial_user_msg",
                         "conversation.max_turns", "oracle.hard_assertions",
                         "oracle.soft_metrics"}

\* validate_scenario without its tests of the nested fields
validate_scenario_top_level(sc) ==
    {f \in RequiredFields : f \in sc.missing}
    \cup {f \in {"dsl_version"} : f \in sc.missing}

\* the set of diagnostics validate_scenario returns; sc.missing are the fields
\* the definition lacks
validate_scenario(sc) ==
    {f \in RequiredFields : f \in sc.missing}
    \cup {f \in {"dsl_version"} : f \in sc.missing}
    \cup (IF "conversation" \notin sc.missing
          THEN {f \in {"conversation.initial_user_msg", "conversation.max_turns"} :
                    f \in sc.missing}
          ELSE {})
    \cup (IF "oracle" \notin sc.missing
          THEN {f \in {"oracle.hard_assertions", "oracle.soft_metrics"} :
                    f \in sc.missing}
          ELSE {})

MetricNames == {"relevance", "completeness", "groundedness"}

\* the keys of the judge's soft_metrics, in the order of the dictionary
MetricOrder == <<"relevance", "completeness", "groundedness">>

\* A threshold expression is the sequence of its characters.
Digits == <<"0", "1", "2", "3", "4", "5", "6", "7", "8", "9">>

IsDigit(c) == \E d \in 1..10 : Digits[d] = c

DigitValue(c) == (CHOOSE d \in 1..10 : Digits[d] = c) - 1

RECURSIVE DecimalValue(_)
DecimalValue(ds) ==
    IF Len(ds) = 0 THEN 0
    ELSE DecimalValue(SubSeq(ds, 1, Len(ds) - 1)) * 10 + DigitValue(ds[Len(ds)])

\* float(text) of Python for a text written as sign, digits, point, digits
\* with at most three digits after the point: the value in thousandths, or
\* ValueError for anything else, the empty text included
float_of_text(text) ==
    LET signed == Len(text) > 0 /\ text[1] \in {"+", "-"}
        body == IF signed THEN SubSeq(text, 2, Len(text)) ELSE text
        dots == {i \in 1..Len(body) : body[i] = "."}
        point == IF dots = {} THEN Len(body) + 1 ELSE CHOOSE i \in dots : TRUE
        whole == SubSeq(body, 1, point - 1)
        frac == SubSeq(body, point + 1, Len(body))
        wellformed ==
            /\ Cardinality(dots) <= 1
            /\ \A i \in 1..Len(body) : IsDigit(body[i]) \/ body[i] = "."
            /\ Len(whole) + Len(frac) > 0
            /\ Len(frac) <= 3
        magnitude == DecimalValue(whole) * 1000
                     + DecimalValue(SubSeq(frac \o <<"0", "0", "0">>, 1, 3))
    IN  IF ~wellformed THEN [raised |-> "ValueError", v |-> 0]
        ELSE [raised |-> "none",
              v |-> IF signed /\ text[1] = "-" THEN 0 - magnitude ELSE magnitude]

\* meets(metric_name, value) of main: op, num = th[:2], float(th[2:]); scores
\* and threshold numbers in thousandths
meets(thresholds, metric_name, value) ==
    LET th == IF metric_name \in DOMAIN thresholds
              THEN thresholds[metric_name]
              ELSE <<">", "=", "0", ".", "0">>
        op == SubSeq(th, 1, IF Len(th) < 2 THEN Len(th) ELSE 2)
        num == float_of_text(SubSeq(th, 3, Len(th)))
    IN  IF num.raised # "none"
        THEN [raised |-> num.raised, met |-> FALSE]
        ELSE [raised |-> "none",
              met |-> IF op = <<">", "=">> THEN value >= num.v ELSE TRUE]

\* all(meets(k, v) for k, v in metrics.items()): the items of the judge's
\* dictionary in their order, left at the first one that is not met or raises
soft_ok(thresholds, metrics) ==
    LET result == [i \in 1..Len(MetricOrder) |->
                      meets(thresholds, MetricOrder[i], metrics[MetricOrder[i]])]
        stops == {i \in 1..Len(MetricOrder) :
                     result[i].raised # "none" \/ ~result[i].met}
        first == CHOOSE i \in stops : \A j \in stops : i <= j
    IN  IF stops = {} THEN [raised |-> "none", ok |-> TRUE]
        ELSE [raised |-> result[first].raised, ok |-> FALSE]

hard_ok(hard) == \A name \in DOMAIN hard : hard[name]

\* budget_ok taken from the enforcer's state at the end of the conversation
\* would need no local copy; the copy is what main tests
budget_ok_always(violations) == TRUE

budget_ok(violations) == Len(violations) = 0

\* _initialize_judge(args); environ is the process environment as
\* get_llm_judge_config reads it, which raises ValueError without
\* LLM_JUDGE_API_KEY
initialize_judge(args, environ, lib) ==
    IF args.judge_config # None
    THEN create_from_config(args.judge_config, lib)
    ELSE IF args.judge_mode = "heuristic"
         THEN create_heuristic_judge(lib)
         ELSE LET llm_config ==
                      IF environ.LLM_JUDGE_API_KEY # NoKey
                      THEN LLMJudgeConfig(judge_type_map(environ.LLM_JUDGE_TYPE),
                                          environ.LLM_JUDGE_API_KEY)
                      ELSE LLMJudgeConfig(judge_type_map(args.llm_type),
                                          args.llm_api_key)
              IN  IF args.judge_mode = "llm"
                  THEN create_llm_judge(llm_config, lib)
                  ELSE create_hybrid_judge(llm_config, None, lib)

NoResponse == [kind |-> "none", len |-> 0]

Sc == suite[idx]

Called(call, result) == Append(trace, [call |-> call, result |-> result])

\* lines 155-174: the suite directory is listed, the seed manager and the
\* judge are initialised; an exception of _initialize_judge ends the run
Startup(now) ==
    /\ pc = "start"
    /\ IF Len(suite) = 0
       THEN /\ pc' = "failed"
            /\ UNCHANGED <<judge, sm, rng>>
       ELSE LET seed_config == [seed |-> env.args.seed,
                                auto_seed |-> env.args.seed = NoSeed,
                                seed_source |-> "timestamp",
                                custom_seed |-> NoString]
                manager == SeedManager(seed_config, now)
                j == initialize_judge(env.args, env.environ, env.lib)
            IN  /\ sm' = manager
                /\ rng' = initial_rng(manager, rng)
                /\ IF j.raised = "none"
                   THEN judge' = j.config /\ pc' = "for"
                   ELSE judge' = judge /\ pc' = "failed"
    /\ UNCHANGED <<be, calls, suite, env, idx, messages, turn, last_resp, strategy,
                   budget_violations, trace, sessions, written, scenario_managers>>

\* for path in scenarios: a definition with validation errors is skipped
SkipScenario ==
    /\ pc = "for"
    /\ idx <= Len(suite)
    /\ validate_scenario(Sc) # {}
    /\ idx' = idx + 1
    /\ UNCHANGED startupvars
    /\ UNCHANGED <<be, calls, suite, env, pc, messages, turn, last_resp, strategy,
                   budget_violations, trace, sessions, written>>

\* the set-up with one BudgetEnforcer made before the for loop and shared by
\* the scenarios of the suite
StartScenarioSharedEnforcer ==
    /\ pc = "for"
    /\ idx <= Len(suite)
    /\ validate_scenario(Sc) = {}
    /\ messages' = <<>>
    /\ strategy' = registry_get(Sc.conversation.tester_strategy)
    /\ be' = IF idx = 1 THEN BudgetEnforcer(Sc.budgets) ELSE be
    /\ last_resp' = NoResponse
    /\ budget_violations' = <<>>
    /\ turn' = 0
    /\ trace' = <<>>
    /\ pc' = "while"
    /\ UNCHANGED startupvars
    /\ UNCHANGED <<calls, suite, env, idx, sessions, written>>

\* lines 225-248: the per-scenario set-up
StartScenario ==
    /\ pc = "for"
    /\ idx <= Len(suite)
    /\ validate_scenario(Sc) = {}
    /\ messages' = <<>>
    /\ strategy' = registry_get(Sc.conversation.tester_strategy)
    /\ be' = BudgetEnforcer(Sc.budgets)
    /\ last_resp' = NoResponse
    /\ budget_violations' = <<>>
    /\ turn' = 0
    /\ trace' = <<>>
    /\ pc' = "while"
    /\ UNCHANGED startupvars
    /\ UNCHANGED <<calls, suite, env, idx, sessions, written>>

\* while budget_enforcer.should_continue(): the condition is false
LoopExit ==
    /\ pc = "while"
    /\ ~should_continue(be)
    /\ trace' = Called("budget.should_continue", "false")
    /\ pc' = "eval"
    /\ UNCHANGED startupvars
    /\ UNCHANGED <<be, calls, suite, env, idx, messages, turn, last_resp, strategy,
                   budget_violations, sessions, written>>

\* lines 249-261 with turn == 0, without messages.append of line 261
FirstMessageUnrecorded ==
    /\ pc = "while"
    /\ should_continue(be)
    /\ turn = 0
    /\ strategy' = first_message(strategy, Sc).st
    /\ messages' = messages
    /\ trace' = trace \o <<[call |-> "budget.should_continue", result |-> "true"],
                           [call |-> "first_message", result |-> "message"]>>
    /\ pc' = "send"
    /\ UNCHANGED startupvars
    /\ UNCHANGED <<be, calls, suite, env, idx, turn, last_resp,
                   budget_violations, sessions, written>>

\* lines 249-261 with turn == 0
FirstMessage ==
    /\ pc = "while"
    /\ should_continue(be)
    /\ turn = 0
    /\ LET r == first_message(strategy, Sc)
       IN  /\ strategy' = r.st
           /\ messages' = Append(messages, [role |-> "user", content |-> r.msg])
    /\ trace' = trace \o <<[call |-> "budget.should_continue", result |-> "true"],
                           [call |-> "first_message", result |-> "message"]>>
    /\ pc' = "send"
    /\ UNCHANGED startupvars
    /\ UNCHANGED <<be, calls, suite, env, idx, turn, last_resp,
                   budget_violations, sessions, written>>

\* lines 249-261 with turn > 0, without the test "if not user_msg: break"
NextMessageAlwaysAppends ==
    /\ pc = "while"
    /\ should_continue(be)
    /\ turn # 0
    /\ LET r == next_message(strategy, last_resp, Sc)
       IN  /\ strategy' = r.st
           /\ messages' = Append(messages, [role |-> "user", content |-> r.msg])
           /\ pc' = "send"
           /\ trace' = trace \o
                <<[call |-> "budget.should_continue", result |-> "true"],
                  [call |-> "next_message",
                   result |-> IF r.msg = NoMessage THEN "none" ELSE "message"]>>
    /\ UNCHANGED startupvars
    /\ UNCHANGED <<be, calls, suite, env, idx, turn, last_resp,
                   budget_violations, sessions, written>>

\* lines 249-261 with turn > 0
NextMessage ==
    /\ pc = "while"
    /\ should_continue(be)
    /\ turn # 0
    /\ LET r == next_message(strategy, last_resp, Sc)
       IN  /\ strategy' = r.st
           /\ IF r.msg = NoMessage
              THEN /\ messages' = messages
                   /\ pc' = "eval"
                   /\ trace' = trace \o
                        <<[call |-> "budget.should_continue", result |-> "true"],
                          [call |-> "next_message", result |-> "none"]>>
              ELSE /\ messages' = Append(messages, [role |-> "user", content |-> r.msg])
                   /\ pc' = "send"
                   /\ trace' = trace \o
                        <<[call |-> "budget.should_continue", result |-> "true"],
                          [call |-> "next_message", result |-> "message"]>>
    /\ UNCHANGED startupvars
    /\ UNCHANGED <<be, calls, suite, env, idx, turn, last_resp,
                   budget_violations, sessions, written>>

\* lines 264-286 without the break of line 280
AgentRespondNoBreak(failed, resp, turn_latency) ==
    /\ pc = "send"
    /\ make_request_with_retries(failed) = "response"
    /\ LET msgs == Append(messages, [role |-> "assistant", content |-> resp.kind])
           estimated_cost == estimate_turn_cost(UserMsgLen, resp.len)
           r == record_turn(be, turn_latency, estimated_cost)
           cont == strategy_should_continue(strategy, msgs, Sc)
       IN  /\ messages' = msgs
           /\ last_resp' = resp
           /\ be' = r.be
           /\ budget_violations' = IF ~r.ok THEN r.be.violations ELSE budget_violations
           /\ trace' = trace \o
                <<[call |-> "send", result |-> "response"],
                  [call |-> "record_turn", result |-> IF r.ok THEN "true" ELSE "false"],
                  [call |-> "strategy.should_continue",
                   result |-> IF cont THEN "true" ELSE "false"]>>
           /\ IF ~cont
              THEN turn' = turn /\ pc' = "eval"
              ELSE turn' = turn + 1 /\ pc' = "while"
    /\ UNCHANGED startupvars
    /\ UNCHANGED <<calls, suite, env, idx, strategy, sessions, written>>

\* lines 264-286: product.send returns resp after turn_latency milliseconds
AgentRespond(failed, resp, turn_latency) ==
    /\ pc = "send"
    /\ make_request_with_retries(failed) = "response"
    /\ LET msgs == Append(messages, [role |-> "assistant", content |-> resp.kind])
           estimated_cost == estimate_turn_cost(UserMsgLen, resp.len)
           r == record_turn(be, turn_latency, estimated_cost)
           cont == strategy_should_continue(strategy, msgs, Sc)
       IN  /\ messages' = msgs
           /\ last_resp' = resp
           /\ be' = r.be
           /\ IF ~r.ok
              THEN /\ budget_violations' = r.be.violations
                   /\ turn' = turn
                   /\ pc' = "eval"
                   /\ trace' = trace \o <<[call |-> "send", result |-> "response"],
                                          [call |-> "record_turn", result |-> "false"]>>
              ELSE /\ budget_violations' = budget_violations
                   /\ trace' = trace \o
                        <<[call |-> "send", result |-> "response"],
                          [call |-> "record_turn", result |-> "true"],
                          [call |-> "strategy.should_continue",
                           result |-> IF cont THEN "true" ELSE "false"]>>
                   /\ IF ~cont
                      THEN turn' = turn /\ pc' = "eval"
                      ELSE turn' = turn + 1 /\ pc' = "while"
    /\ UNCHANGED startupvars
    /\ UNCHANGED <<calls, suite, env, idx, strategy, sessions, written>>

\* line 265: product.send raises; nothing in main catches it
AgentFail(failed) ==
    /\ pc = "send"
    /\ make_request_with_retries(failed) = "raise"
    /\ trace' = Called("send", "raise")
    /\ pc' = "crashed"
    /\ UNCHANGED startupvars
    /\ UNCHANGED <<be, calls, suite, env, idx, messages, turn, last_resp, strategy,
                   budget_violations, sessions, written>>

\* lines 288-330: the judge's verdict, the pass decision, the SessionResult;
\* a ValueError of meets is caught nowhere
Evaluate(hard, metrics) ==
    /\ pc = "eval"
    /\ LET soft == soft_ok(Sc.oracle.soft_metrics, metrics)
           passed == /\ hard_ok(hard)
                     /\ soft.ok
                     /\ budget_ok(budget_violations)
       IN  IF soft.raised # "none"
           THEN /\ pc' = "crashed"
                /\ UNCHANGED <<sessions, idx>>
           ELSE /\ sessions' = Append(sessions,
                       [scenario_id |-> Sc.id,
                        messages |-> messages,
                        hard_results |-> hard,
                        metrics |-> metrics,
                        passed |-> passed,
                        strategy |-> Sc.conversation.tester_strategy,
                        budget_status |-> get_status(be),
                        budget_violations |-> budget_violations])
                /\ idx' = idx + 1
                /\ pc' = "for"
    /\ UNCHANGED startupvars
    /\ UNCHANGED <<be, calls, suite, env, messages, turn, last_resp, strategy,
                   budget_violations, trace, written>>

\* lines 332-355: the report and results.json
WriteResults ==
    /\ pc = "for"
    /\ idx > Len(suite)
    /\ written' = TRUE
    /\ pc' = "done"
    /\ UNCHANGED startupvars
    /\ UNCHANGED <<be, calls, suite, env, idx, messages, turn, last_resp, strategy,
                   budget_violations, trace, sessions>>

Next ==
    \/ SkipScenario
    \/ StartScenario
    \/ LoopExit
    \/ FirstMessage
    \/ NextMessage
    \/ \E failed \in 0..retry_attempts, resp \in env.responses, l \in env.latencies :
           AgentRespond(failed, resp, l)
    \/ \E failed \in 0..retry_attempts : AgentFail(failed)
    \/ \E hard \in env.hard_results, metrics \in env.metrics : Evaluate(hard, metrics)
    \/ WriteResults

(***************************************************************************)
(* judges/schema_judge.py: the hard assertions.  A text, a rule value and  *)
(* a path are the sequences of their characters.  A JSON value of the      *)
(* agent's structured payload is a record: the scalars above, a dict (a    *)
(* function from keys to values) or a list (a sequence of values).         *)
(***************************************************************************)
Dict(f) == [t |-> "dict", entries |-> f]

List(s) == [t |-> "list", items |-> s]

\* the character U+00B2, for which str.isdigit() is true and int() raises
SuperscriptTwo == "sup2"

\* str.lower() of one character and of a text
lower_char(c) == CASE c = "A" -> "a" [] c = "B" -> "b" [] OTHER -> c

lower(text) == [i \in 1..Len(text) |-> lower_char(text[i])]

\* v in at
contains(at, v) ==
    \E i \in 0..(Len(at) - Len(v)) : SubSeq(at, i + 1, i + Len(v)) = v

\* ' '.join(texts)
RECURSIVE join(_)
join(texts) ==
    IF Len(texts) = 0 THEN <<>>
    ELSE IF Len(texts) = 1 THEN texts[1]
    ELSE texts[1] \o <<" ">> \o join(Tail(texts))

\* [m['content'] for m in messages if m['role'] == 'assistant']
RECURSIVE assistant_texts(_)
assistant_texts(msgs) ==
    IF Len(msgs) = 0 THEN <<>>
    ELSE (IF Head(msgs).role = "assistant" THEN <<Head(msgs).content>> ELSE <<>>)
         \o assistant_texts(Tail(msgs))

\* _get_last_agent_text joining every assistant message
get_last_agent_text_of_all(msgs, k) ==
    join(assistant_texts(msgs))

\* _get_last_agent_text: ' '.join(texts[-k:]) if texts else ''
get_last_agent_text(msgs, k) ==
    LET texts == assistant_texts(msgs)
    IN  IF Len(texts) = 0 THEN <<>>
        ELSE join(SubSeq(texts, IF Len(texts) > k THEN Len(texts) - k + 1 ELSE 1,
                         Len(texts)))

\* path.startswith('$.')
startswith_root(path) == Len(path) >= 2 /\ path[1] = "$" /\ path[2] = "."

\* text.split('.')
RECURSIVE split(_)
split(text) ==
    LET dots == {i \in 1..Len(text) : text[i] = "."}
        first == CHOOSE i \in dots : \A j \in dots : i <= j
    IN  IF dots = {} THEN <<text>>
        ELSE <<SubSeq(text, 1, first - 1)>> \o split(SubSeq(text, first + 1, Len(text)))

\* k.isdigit()
isdigit(k) ==
    Len(k) > 0 /\ \A i \in 1..Len(k) : IsDigit(k[i]) \/ k[i] = SuperscriptTwo

\* int(k) of a text for which isdigit() is true
int(k) ==
    IF \A i \in 1..Len(k) : IsDigit(k[i])
    THEN [raised |-> "none", v |-> DecimalValue(k)]
    ELSE [raised |-> "ValueError", v |-> 0]

\* the loop "for k in keys" of _jsonpath_exists, _jsonpath_equals and
\* _get_jsonpath_value: the value reached, that a segment did not resolve, or
\* the exception of int(k)
RECURSIVE walk(_, _)
walk(cur, keys) ==
    IF Len(keys) = 0 THEN [raised |-> "none", found |-> TRUE, cur |-> cur]
    ELSE LET k == Head(keys)
         IN  IF cur.t = "dict" /\ k \in DOMAIN cur.entries
             THEN walk(cur.entries[k], Tail(keys))
             ELSE IF cur.t = "list" /\ isdigit(k)
             THEN IF int(k).raised # "none"
                  THEN [raised |-> int(k).raised, found |-> FALSE, cur |-> Null]
                  ELSE IF int(k).v < Len(cur.items)
                  THEN walk(cur.items[int(k).v + 1], Tail(keys))
                  ELSE [raised |-> "none", found |-> FALSE, cur |-> Null]
             ELSE [raised |-> "none", found |-> FALSE, cur |-> Null]

jsonpath_exists(obj, path) ==
    IF ~startswith_root(path) THEN [raised |-> "none", ret |-> FALSE]
    ELSE LET w == walk(obj, split(SubSeq(path, 3, Len(path))))
         IN  [raised |-> w.raised, ret |-> w.found /\ w.cur # Null]

jsonpath_equals(obj, path, expected_value) ==
    IF ~startswith_root(path) THEN [raised |-> "none", ret |-> FALSE]
    ELSE LET w == walk(obj, split(SubSeq(path, 3, Len(path))))
         IN  [raised |-> w.raised, ret |-> w.found /\ w.cur = expected_value]

\* _get_jsonpath_value: None when the path does not start at the root or a
\* segment does not resolve
get_jsonpath_value(obj, path) ==
    IF ~startswith_root(path) THEN [raised |-> "none", ret |-> Null]
    ELSE LET w == walk(obj, split(SubSeq(path, 3, Len(path))))
         IN  [raised |-> w.raised, ret |-> IF w.found THEN w.cur ELSE Null]

\* _number_between: float(value) with ValueError and TypeError caught
number_between(value, min_val, max_val) ==
    LET num_val == float(value)
    IN  IF num_val.raised # "none" THEN FALSE
        ELSE min_val <= num_val.v /\ num_val.v <= max_val

\* _matches_regex for a pattern that is a literal text or does not compile
matches_regex(text, pattern) ==
    IF ~pattern.compiles THEN FALSE
    ELSE contains(lower(text), lower(pattern.literal))

\* any(v in at for v in vals) with vals and at in lower case
contains_any(agent_text, values) ==
    \E i \in 1..Len(values) : contains(lower(agent_text), lower(values[i]))

\* all(v not in at for v in vals)
not_contains_any(agent_text, values) ==
    \A i \in 1..Len(values) : ~contains(lower(agent_text), lower(values[i]))

\* the body of the loop of run_hard_assertions for one rule: the value of
\* passed, or the exception that leaves the function
rule_passed(rule, agent_text, agent_structured) ==
    CASE rule.kind = "contains_any" ->
             [raised |-> "none", passed |-> contains_any(agent_text, rule.values)]
      [] rule.kind = "not_contains_any" ->
             [raised |-> "none", passed |-> not_contains_any(agent_text, rule.values)]
      [] rule.kind = "matches_regex" ->
             [raised |-> "none", passed |-> matches_regex(agent_text, rule.pattern)]
      [] rule.kind = "jsonpath_exists" ->
             LET r == jsonpath_exists(agent_structured, rule.path)
             IN  [raised |-> r.raised, passed |-> r.ret]
      [] rule.kind = "jsonpath_equals" ->
             LET r == jsonpath_equals(agent_structured, rule.path, rule.expected_value)
             IN  [raised |-> r.raised, passed |-> r.ret]
      [] rule.kind = "number_between" ->
             LET r == get_jsonpath_value(agent_structured, rule.path)
             IN  [raised |-> r.raised,
                  passed |-> IF r.raised # "none" THEN FALSE
                             ELSE number_between(r.ret, rule.min_value, rule.max_value)]
      [] OTHER -> [raised |-> "none", passed |-> FALSE]

\* the loop of run_hard_assertions: results[name] = passed, rule after rule
RECURSIVE run_rules(_, _, _, _)
run_rules(rules, agent_text, agent_structured, results) ==
    IF Len(rules) = 0 THEN [raised |-> "none", results |-> results]
    ELSE LET rule == Head(rules)
             r == rule_passed(rule, agent_text, agent_structured)
         IN  IF r.raised # "none" THEN [raised |-> r.raised, results |-> results]
             ELSE run_rules(Tail(rules), agent_text, agent_structured,
                            [n \in DOMAIN results \cup {rule.name} |->
                                IF n = rule.name THEN r.passed ELSE results[n]])

\* run_hard_assertions: the dictionary of results, or the exception
run_hard_assertions(oracles, conversation, agent_structured) ==
    run_rules(oracles.hard_assertions, get_last_agent_text(conversation, 2),
              agent_structured, <<>>)

(***************************************************************************)
(* The scenario definitions and the environment of a run.                  *)
(***************************************************************************)
RuleNames == {"r1", "r2"}

OracleSoftMetrics ==
    [m \in {"relevance", "completeness"} |-> <<">", "=", "0", ".", "5">>]

Scenario(id, missing, strategy_name, conv_max_turns, budget_max_turns) ==
    [id |-> id,
     missing |-> missing,
     conversation |-> [tester_strategy |-> strategy_name, max_turns |-> conv_max_turns],
     budgets |-> [max_turns |-> budget_max_turns,
                  max_latency_ms_avg |-> 250,
                  max_cost_usd_per_session |-> 100],
     oracle |-> [hard_assertions |-> RuleNames, soft_metrics |-> OracleSoftMetrics]]

ValidScenarios(id) ==
    {Scenario(id, {}, s, c, b) :
        s \in RegisteredStrategies, c \in 0..MaxConvTurns, b \in 0..MaxBudgetTurns}

InvalidScenarios(id) ==
    {Scenario(id, {f}, "FlowIntent", 1, 1) : f \in ScenarioFields}

RichEnv ==
    [responses |-> [kind : {"plain", "cue", "goal", "esc"}, len : {10, 60}],
     latencies |-> {100, 600},
     hard_results |-> [RuleNames -> BOOLEAN],
     metrics |-> {[relevance |-> r, completeness |-> c, groundedness |-> 800] :
                     r \in {300, 800}, c \in {300, 800}}]

\* SeedConfig(seed=42, auto_seed=False) of a run with --seed 42
DefaultSeedConfig ==
    [seed |-> 42, auto_seed |-> FALSE, seed_source |-> "timestamp",
     custom_seed |-> NoString]

NoEnforcer ==
    BudgetEnforcer([max_turns |-> 0, max_latency_ms_avg |-> 0,
                    max_cost_usd_per_session |-> 0])

InitRun(s, e) ==
    /\ suite = s
    /\ env = e
    /\ pc = "for"
    /\ idx = 1
    /\ be = NoEnforcer
    /\ calls = <<>>
    /\ messages = <<>>
    /\ turn = 0
    /\ last_resp = NoResponse
    /\ strategy = NewStrategy("none")
    /\ budget_violations = <<>>
    /\ trace = <<>>
    /\ sessions = <<>>
    /\ written = FALSE
    /\ judge = UnifiedJudgeConfig("heuristic", None, None)
    /\ sm = SeedManager(DefaultSeedConfig, 0)
    /\ rng = random_seed(42)
    /\ scenario_managers = <<>>

\* a suite of one scenario, any definition, any agent and judge answers
Init ==
    \E sc \in ValidScenarios(1) \cup InvalidScenarios(1) :
        InitRun(<<sc>>, RichEnv)

Spec == Init /\ [][Next]_vars

(***************************************************************************)
(* A BudgetEnforcer driven directly by its caller: any sequence of         *)
(* record_turn calls, also after a violation.                              *)
(***************************************************************************)
InitBE ==
    /\ be \in {BudgetEnforcer(c) : c \in [max_turns : {2, MaxCalls + 1},
                                           max_latency_ms_avg : {250},
                                           max_cost_usd_per_session : {100}]}
    /\ calls = <<>>
    /\ suite = <<>>
    /\ env = RichEnv
    /\ pc = "enforcer"
    /\ idx = 0
    /\ messages = <<>>
    /\ turn = 0
    /\ last_resp = NoResponse
    /\ strategy = NewStrategy("none")
    /\ budget_violations = <<>>
    /\ trace = <<>>
    /\ sessions = <<>>
    /\ written = FALSE
    /\ judge = UnifiedJudgeConfig("heuristic", None, None)
    /\ sm = SeedManager(DefaultSeedConfig, 0)
    /\ rng = random_seed(42)
    /\ scenario_managers = <<>>

CallRecordTurn(latency_ms, estimated_cost) ==
    /\ pc = "enforcer"
    /\ Len(calls) < MaxCalls
    /\ LET r == record_turn(be, latency_ms, estimated_cost)
       IN  /\ be' = r.be
           /\ calls' = Append(calls, [latency_ms |-> latency_ms,
                                      estimated_cost |-> estimated_cost,
                                      ret |-> r.ok,
                                      before |-> be.violations])
    /\ UNCHANGED startupvars
    /\ UNCHANGED drivervars

NextBE == \E l \in {100, 200, 600}, c \in {0, 60} : CallRecordTurn(l, c)

SpecBE == InitBE /\ [][NextBE]_vars

(***************************************************************************)
(* A suite of several scenarios run against an agent and a judge with few  *)
(* answers.                                                                *)
(***************************************************************************)
SmallEnv ==
    [responses |-> {[kind |-> "cue", len |-> 10]},
     latencies |-> {100, 600},
     hard_results |-> {[n \in RuleNames |-> TRUE], [n \in RuleNames |-> n # "r1"]},
     metrics |-> {[relevance |-> 800, completeness |-> 800, groundedness |-> 800]}]

BatchSuites ==
    LET BatchScenarios(id) ==
            InvalidScenarios(id)
            \cup {Scenario(id, {}, s, 3, b) :
                      s \in {"FlowIntent", "MemoryCarry"}, b \in {0, 1, 3}}
    IN  {s \in [1..SuiteLen -> UNION {BatchScenarios(i) : i \in 1..SuiteLen}] :
            \A i \in 1..SuiteLen : s[i].id = i}

InitBatch == \E s \in BatchSuites : InitRun(s, SmallEnv)

SpecBatch == InitBatch /\ [][Next]_vars

(***************************************************************************)
(* The conversation loop as it goes on: main is one sequential thread, so  *)
(* a statement of the loop that can execute does, and a call of the agent  *)
(* returns or raises.  One scenario, any definition, an agent with two     *)
(* answers.                                                                *)
(***************************************************************************)
InitLive ==
    LET LiveEnv ==
            [responses |-> {[kind |-> "cue", len |-> 10], [kind |-> "goal", len |-> 60]},
             latencies |-> {100, 600},
             hard_results |-> SmallEnv.hard_results,
             metrics |-> SmallEnv.metrics]
    IN  \E sc \in ValidScenarios(1) \cup InvalidScenarios(1) : InitRun(<<sc>>, LiveEnv)

\* product.send ends, with a response or with an exception
AgentCallEnds ==
    \/ \E failed \in 0..retry_attempts, resp \in env.responses, l \in env.latencies :
           AgentRespond(failed, resp, l)
    \/ \E failed \in 0..retry_attempts : AgentFail(failed)

SpecLive ==
    /\ InitLive
    /\ [][Next]_vars
    /\ WF_vars(LoopExit)
    /\ WF_vars(FirstMessage)
    /\ WF_vars(NextMessage)
    /\ WF_vars(AgentCallEnds)

(***************************************************************************)
(* A run from the start of main: the command line, the process environment *)
(* and the client library the judge type needs are part of the             *)
(* environment of the run.                                                 *)
(***************************************************************************)
CommandLines ==
    [judge_config : {None,
                     [mode |-> "llm", llm_config |-> None, hybrid_weights |-> None],
                     [mode |-> "hybrid", llm_config |-> LLMJudgeConfig("openai", "sk-file"),
                      hybrid_weights |-> [heuristic |-> 10, llm |-> 0]]},
     judge_mode : {"heuristic", "llm", "hybrid"},
     llm_type : {"openai", "anthropic"},
     llm_api_key : {NoKey, "sk-arg"},
     seed : {NoSeed, 42}]

Clock == {7, 8}

StartEnv(args, environ, lib) ==
    [responses |-> SmallEnv.responses,
     latencies |-> SmallEnv.latencies,
     hard_results |-> SmallEnv.hard_results,
     metrics |-> SmallEnv.metrics,
     args |-> args,
     environ |-> environ,
     lib |-> lib]

\* before main's first statement: nothing is built yet and the generator is
\* as the interpreter seeded it
InitStart ==
    /\ suite \in {<<>>} \cup {<<sc>> : sc \in {Scenario(1, {"dsl_version"}, "FlowIntent", 1, 1)}
                                   \cup {Scenario(1, {}, "FlowIntent", 3, b) : b \in {0, 1, 3}}}
    /\ env \in {StartEnv(args, environ, lib) :
                   args \in CommandLines,
                   environ \in [LLM_JUDGE_API_KEY : {NoKey, "sk-env"}, LLM_JUDGE_TYPE : {"openai"}],
                   lib \in [installed : BOOLEAN, requires_key : BOOLEAN]}
    /\ pc = "start"
    /\ idx = 1
    /\ be = NoEnforcer
    /\ calls = <<>>
    /\ messages = <<>>
    /\ turn = 0
    /\ last_resp = NoResponse
    /\ strategy = NewStrategy("none")
    /\ budget_violations = <<>>
    /\ trace = <<>>
    /\ sessions = <<>>
    /\ written = FALSE
    /\ judge = NoJudge
    /\ sm = SeedManager([DefaultSeedConfig EXCEPT !.seed = NoSeed], 0)
    /\ rng = random_seed(500)
    /\ scenario_managers = <<>>

NextStart ==
    \/ \E now \in Clock : Startup(now)
    \/ Next

SpecStart == InitStart /\ [][NextStart]_vars

(***************************************************************************)
(* Suites of one scenario whose oracle.soft_metrics vary: the operators    *)
(* and numbers of the threshold expressions and the configured names.      *)
(***************************************************************************)
InitOracle ==
    LET ThresholdOperators == {<<">", "=">>, <<">">>, <<"<">>, <<"<", "=">>, <<"=", "=">>}
        ThresholdNumbers == {<<"1">>, <<"0", ".", "5">>}
        ThresholdExpressions ==
            {op \o num : op \in ThresholdOperators, num \in ThresholdNumbers}
        OracleVariants ==
            {[m \in {"relevance"} |-> e] : e \in ThresholdExpressions}
            \cup {[m \in {"safety"} |-> <<">", "=", "0", ".", "5">>]}
            \cup {[m \in {"relevance", "safety"} |-> <<">", "=", "0", ".", "5">>]}
            \cup {[m \in {"completeness", "groundedness"} |-> <<">", "=", "0", ".", "5">>]}
        OracleScenarios ==
            {Scenario(1, {"dsl_version"}, "FlowIntent", 1, 1)}
            \cup {[Scenario(1, {}, "FlowIntent", 3, b) EXCEPT !.oracle.soft_metrics = th] :
                      b \in {0, 1, 3}, th \in OracleVariants}
        OracleEnv ==
            [responses |-> SmallEnv.responses,
             latencies |-> SmallEnv.latencies,
             hard_results |-> SmallEnv.hard_results,
             metrics |-> {[relevance |-> r, completeness |-> c, groundedness |-> 800] :
                             r \in {300, 500, 800}, c \in {300, 800}}]
    IN  \E sc \in OracleScenarios : InitRun(<<sc>>, OracleEnv)

SpecOracle == InitOracle /\ [][Next]_vars

(***************************************************************************)
(* A lone UnifiedJudge asked for one evaluation, which calls then holds.    *)
(***************************************************************************)
JudgesUnderTest ==
    {UnifiedJudgeConfig(mode, LLMJudgeConfig("JudgeType.OPENAI", "sk-test"), None) :
        mode \in {"heuristic", "llm", "hybrid"}}
    \cup {UnifiedJudgeConfig("hybrid", LLMJudgeConfig("JudgeType.OPENAI", "sk-test"), w) :
              w \in [heuristic : {0, 5, 10}, llm : {0, 5, 10}]}

\* outcome is what the call to the external judge can do: raise, or return a text
EvaluationRequests ==
    LET ScoreValues == {Absent, Null, Word, Str(700), Num(0 - 500), Num(700), Num(1500)}
        JudgeOutcomes ==
            {[kind |-> k, fields |-> fallback_evaluation.fields] :
                k \in {"exception", "no json", "invalid json", "not an object"}}
            \cup {[kind |-> "object",
                   fields |-> [relevance |-> r, completeness |-> c,
                               groundedness |-> Num(500), confidence |-> f]] :
                      r \in ScoreValues, c \in {Num(700), Null}, f \in {Num(900), Absent}}
    IN  [ug_tokens : {{}, {"pay"}, {"pay", "plan"}},
         at_tokens : {{}, {"pay", "today"}},
         has_numbers : BOOLEAN,
         promise_to_pay : {"absent", "complete", "incomplete"},
         outcome : JudgeOutcomes]

InitJudge ==
    /\ judge \in JudgesUnderTest
    /\ calls = <<>>
    /\ suite = <<>>
    /\ env = SmallEnv
    /\ pc = "judge"
    /\ idx = 0
    /\ be = NoEnforcer
    /\ messages = <<>>
    /\ turn = 0
    /\ last_resp = NoResponse
    /\ strategy = NewStrategy("none")
    /\ budget_violations = <<>>
    /\ trace = <<>>
    /\ sessions = <<>>
    /\ written = FALSE
    /\ sm = SeedManager(DefaultSeedConfig, 0)
    /\ rng = random_seed(42)
    /\ scenario_managers = <<>>

CallEvaluate(req) ==
    /\ pc = "judge"
    /\ calls = <<>>
    /\ calls' = <<[req |-> req, ret |-> evaluate(judge, req)]>>
    /\ UNCHANGED <<be, judge, sm, rng, scenario_managers>>
    /\ UNCHANGED drivervars

NextJudge == \E req \in EvaluationRequests : CallEvaluate(req)

SpecJudge == InitJudge /\ [][NextJudge]_vars

(***************************************************************************)
(* A lone SeedManager and the scenario managers made from it, under any    *)
(* sequence of their operations; calls is the log of the operations.       *)
(***************************************************************************)
InitSeed ==
    /\ \E config \in [seed : {NoSeed, 1, 42},
                       auto_seed : BOOLEAN,
                       seed_source : {"timestamp", "scenario_id", "custom"},
                       custom_seed : {NoString, "alpha"}],
          now \in Clock :
           /\ sm = SeedManager(config, now)
           /\ rng = initial_rng(SeedManager(config, now), random_seed(500))
    /\ scenario_managers = <<>>
    /\ calls = <<>>
    /\ suite = <<>>
    /\ env = SmallEnv
    /\ pc = "seed"
    /\ idx = 0
    /\ be = NoEnforcer
    /\ messages = <<>>
    /\ turn = 0
    /\ last_resp = NoResponse
    /\ strategy = NewStrategy("none")
    /\ budget_violations = <<>>
    /\ trace = <<>>
    /\ sessions = <<>>
    /\ written = FALSE
    /\ judge = UnifiedJudgeConfig("heuristic", None, None)

Logged(op, scenario_id, ret) ==
    Append(calls, [op |-> op, scenario_id |-> scenario_id, ret |-> ret])

CanCall == pc = "seed" /\ Len(calls) < MaxSeedOps

CallGetScenarioSeed(scenario_id) ==
    /\ CanCall
    /\ LET g == get_scenario_seed(sm, rng, scenario_id)
       IN  /\ rng' = g.rng
           /\ calls' = Logged("get_scenario_seed", scenario_id, g.ret)
    /\ UNCHANGED <<be, judge, sm, scenario_managers>>
    /\ UNCHANGED drivervars

CallSetScenarioSeed(scenario_id) ==
    /\ CanCall
    /\ LET r == set_scenario_seed(sm, rng, scenario_id)
       IN  /\ sm' = r.sm
           /\ rng' = r.rng
    /\ calls' = Logged("set_scenario_seed", scenario_id, 0)
    /\ UNCHANGED <<be, judge, scenario_managers>>
    /\ UNCHANGED drivervars

CallResetToBaseSeed ==
    /\ CanCall
    /\ rng' = reset_to_base_seed(sm, rng)
    /\ calls' = Logged("reset_to_base_seed", "", 0)
    /\ UNCHANGED <<be, judge, sm, scenario_managers>>
    /\ UNCHANGED drivervars

\* get_random_choice, get_random_int, get_random_float, shuffle_list of either
\* manager class
CallRandomDraw ==
    /\ CanCall
    /\ rng' = random_draw(rng)
    /\ calls' = Logged("random", "", 0)
    /\ UNCHANGED <<be, judge, sm, scenario_managers>>
    /\ UNCHANGED drivervars

CallCreateScenarioSeedManager(scenario_id) ==
    /\ CanCall
    /\ LET r == ScenarioSeedManager(sm, rng, scenario_id)
       IN  /\ scenario_managers' = Append(scenario_managers, r.child)
           /\ rng' = r.rng
    /\ calls' = Logged("create_scenario_seed_manager", scenario_id, 0)
    /\ UNCHANGED <<be, judge, sm>>
    /\ UNCHANGED drivervars

CallSetLocalSeed(i, seed) ==
    /\ CanCall
    /\ i \in 1..Len(scenario_managers)
    /\ LET r == set_local_seed(scenario_managers[i], seed)
       IN  /\ scenario_managers' = [scenario_managers EXCEPT ![i] = r.child]
           /\ rng' = r.rng
    /\ calls' = Logged("set_local_seed", scenario_managers[i].scenario_id, seed)
    /\ UNCHANGED <<be, judge, sm>>
    /\ UNCHANGED drivervars

CallResetToScenarioSeed(i) ==
    /\ CanCall
    /\ i \in 1..Len(scenario_managers)
    /\ LET r == reset_to_scenario_seed(scenario_managers[i])
       IN  /\ scenario_managers' = [scenario_managers EXCEPT ![i] = r.child]
           /\ rng' = r.rng
    /\ calls' = Logged("reset_to_scenario_seed", scenario_managers[i].scenario_id, 0)
    /\ UNCHANGED <<be, judge, sm>>
    /\ UNCHANGED drivervars

NextSeed ==
    \/ \E id \in ScenarioIds : CallGetScenarioSeed(id)
    \/ \E id \in ScenarioIds : CallSetScenarioSeed(id)
    \/ CallResetToBaseSeed
    \/ CallRandomDraw
    \/ \E id \in ScenarioIds : CallCreateScenarioSeedManager(id)
    \/ \E i \in 1..MaxSeedOps, seed \in {5} : CallSetLocalSeed(i, seed)
    \/ \E i \in 1..MaxSeedOps : CallResetToScenarioSeed(i)

SpecSeed == InitSeed /\ [][NextSeed]_vars

(***************************************************************************)
(* One call of run_hard_assertions on an oracle, a transcript and a        *)
(* structured payload, which calls then holds.                             *)
(***************************************************************************)
\* a rule with every key a kind reads
HardRule(name, kind) ==
    [name |-> name, kind |-> kind, values |-> <<<<"a">>>>,
     pattern |-> [compiles |-> TRUE, literal |-> <<"a">>],
     path |-> <<"$", ".", "a">>, expected_value |-> Num(1),
     min_value |-> 2, max_value |-> 5]

\* the calls made: text rules over transcripts, path rules over nested
\* payloads, and oracles of up to MaxRules rules
HardRequests ==
    LET Texts == {<<"A", "b">>, <<"b">>}
        Conversations ==
            UNION {[1..n -> [role : {"user", "assistant"}, content : Texts]] :
                      n \in 0..MaxMessages}
        ValueLists ==
            {<<>>, <<<<>>>>, <<<<"a">>>>, <<<<"B">>, <<"a", "b">>>>, <<<<"b", " ", "a">>>>}
        TextRequests ==
            {[oracles |-> [hard_assertions |->
                  <<[HardRule("r1", "contains_any") EXCEPT !.values = vals],
                    [HardRule("r2", "not_contains_any") EXCEPT !.values = vals]>>],
              conversation |-> c,
              agent_structured |-> Dict(<<>>)] : vals \in ValueLists, c \in Conversations}
        Leaves == {Num(1), Str(2), Word, Null}
        Nested ==
            Leaves
            \cup {Dict([k \in {<<"b">>} |-> x]) : x \in Leaves}
            \cup {List(s) : s \in UNION {[1..n -> Leaves] : n \in 0..2}}
        Payloads == Nested \cup {Dict([k \in {<<"a">>} |-> x]) : x \in Nested}
        Paths ==
            {<<"$", ".", "a">>, <<"$", ".", "a", ".", "b">>, <<"$", ".", "a", ".", "0">>,
             <<"$", ".", "a", ".", "1">>, <<"$", ".", "a", ".", "0", "1">>,
             <<"$", ".", "a", ".", "2">>, <<"$", ".", "a", ".", SuperscriptTwo>>,
             <<"$", ".", "0">>, <<"$", ".", "c">>, <<"$", ".", "a", ".">>, <<"$", ".">>,
             <<"$", "a">>, <<"a", ".", "b">>, <<"$", ".", "a", ".", "b", ".", "c">>}
        PathRules ==
            {HardRule("r1", kind) :
                kind \in {"jsonpath_exists", "jsonpath_equals", "number_between"}}
            \cup {[HardRule("r1", "jsonpath_equals") EXCEPT !.expected_value = Null]}
        PathRequests ==
            {[oracles |-> [hard_assertions |-> <<[rule EXCEPT !.path = path]>>],
              conversation |-> <<>>,
              agent_structured |-> payload] :
                rule \in PathRules, path \in Paths, payload \in Payloads}
        ListedRules ==
            {HardRule(name, kind) :
                name \in RuleNames,
                kind \in {"contains_any", "matches_regex", "unknown_rule"}}
            \cup {[HardRule(name, "matches_regex") EXCEPT !.pattern.compiles = FALSE] :
                      name \in RuleNames}
        RuleListRequests ==
            {[oracles |-> [hard_assertions |-> rules],
              conversation |-> <<[role |-> "assistant", content |-> text]>>,
              agent_structured |-> Dict(<<>>)] :
                rules \in UNION {[1..n -> ListedRules] : n \in 0..MaxRules},
                text \in {<<"a">>, <<"b">>}}
    IN  TextRequests \cup PathRequests \cup RuleListRequests

InitHard ==
    /\ calls = <<>>
    /\ suite = <<>>
    /\ env = SmallEnv
    /\ pc = "hard"
    /\ idx = 0
    /\ be = NoEnforcer
    /\ messages = <<>>
    /\ turn = 0
    /\ last_resp = NoResponse
    /\ strategy = NewStrategy("none")
    /\ budget_violations = <<>>
    /\ trace = <<>>
    /\ sessions = <<>>
    /\ written = FALSE
    /\ judge = UnifiedJudgeConfig("heuristic", None, None)
    /\ sm = SeedManager(DefaultSeedConfig, 0)
    /\ rng = random_seed(42)
    /\ scenario_managers = <<>>

CallRunHardAssertions(req) ==
    /\ pc = "hard"
    /\ calls = <<>>
    /\ calls' = <<[req |-> req,
                   ret |-> run_hard_assertions(req.oracles, req.conversation,
                                               req.agent_structured)]>>
    /\ UNCHANGED <<be, judge, sm, rng, scenario_managers>>
    /\ UNCHANGED drivervars

NextHard == \E req \in HardRequests : CallRunHardAssertions(req)

SpecHard == InitHard /\ [][NextHard]_vars

(***************************************************************************)
(* Properties.                                                             *)
(***************************************************************************)
Last(seq) == seq[Len(seq)]

Min(a, b) == IF a <= b THEN a ELSE b

Range(seq) == {seq[i] : i \in 1..Len(seq)}

\* turns taken: the assistant messages of a transcript
Turns(msgs) == Cardinality({i \in 1..Len(msgs) : msgs[i].role = "assistant"})

RecordTurnFalse == [call |-> "record_turn", result |-> "false"]

StrategyStops ==
    {[call |-> "strategy.should_continue", result |-> "false"],
     [call |-> "next_message", result |-> "none"]}

\* the operator and the number of a threshold expression <operator><number>
ThresholdOperator(th) ==
    IF Len(th) >= 2 /\ th[2] = "=" THEN SubSeq(th, 1, 2) ELSE SubSeq(th, 1, 1)

ThresholdNumber(th) ==
    float_of_text(SubSeq(th, Len(ThresholdOperator(th)) + 1, Len(th))).v

C2_TurnsWithinCeiling ==
    pc \in {"while", "send", "eval"} =>
        Turns(messages) <= Min(Sc.budgets.max_turns, Sc.conversation.max_turns)

\* C3: once record_turn has returned false, main calls none of
\* next_message, should_continue, send or record_turn again for the scenario
\* and the transcript, the enforcer and the strategy stay as they are: the
\* violating turn is the last one.
C3_ViolationEndsConversation ==
    /\ [](\A i \in 1..Len(trace) : trace[i] = RecordTurnFalse => i = Len(trace))
    /\ [][ (trace # <<>> /\ Last(trace) = RecordTurnFalse
            /\ ~(pc = "for" /\ pc' = "while"))
           => /\ trace' = trace
              /\ messages' = messages
              /\ be' = be
              /\ strategy' = strategy
              /\ pc' \in {"eval", "for", "done"} ]_vars

\* a violating second turn has been evaluated
C3_Witness ==
    /\ pc = "done"
    /\ Len(trace) > 0
    /\ Last(trace) = RecordTurnFalse
    /\ Len(messages) = 4
    /\ Len(sessions) = 1
    /\ sessions[1].messages = messages

RECURSIVE SumLatency(_, _)
SumLatency(cs, n) == IF n = 0 THEN 0 ELSE SumLatency(cs, n - 1) + cs[n].latency_ms

RECURSIVE SumCost(_, _)
SumCost(cs, n) == IF n = 0 THEN 0 ELSE SumCost(cs, n - 1) + cs[n].estimated_cost

\* C4: the n-th record_turn call on an enforcer returns false iff, with the
\* n-th turn accumulated, n >= max_turns, or the mean of the n latencies is
\* greater than max_latency_ms_avg, or the sum of the n costs is greater than
\* max_cost_usd_per_session; the first call fails on latency alone, and
\* latencies 100, 200, 600 under a mean limit of 250 return true, true, false.
C4_RecordTurnReturn ==
    /\ \A n \in 1..Len(calls) :
          calls[n].ret = FALSE <=>
              \/ n >= be.max_turns
              \/ SumLatency(calls, n) > be.max_latency_ms_avg * n
              \/ SumCost(calls, n) > be.max_cost_usd_per_session
    /\ (/\ Len(calls) >= 1
        /\ calls[1].latency_ms > be.max_latency_ms_avg
        /\ 1 < be.max_turns
        /\ calls[1].estimated_cost <= be.max_cost_usd_per_session)
       => calls[1].ret = FALSE
    /\ (/\ Len(calls) >= 3
        /\ <<calls[1].latency_ms, calls[2].latency_ms, calls[3].latency_ms>> = <<100, 200, 600>>
        /\ be.max_latency_ms_avg = 250
        /\ 3 < be.max_turns
        /\ SumCost(calls, 3) <= be.max_cost_usd_per_session)
       => <<calls[1].ret, calls[2].ret, calls[3].ret>> = <<TRUE, TRUE, FALSE>>

\* the latencies 100, 200, 600 have been recorded, the third call failing on
\* the mean alone
C4_Witness ==
    /\ Len(calls) = 3
    /\ <<calls[1].latency_ms, calls[2].latency_ms, calls[3].latency_ms>> = <<100, 200, 600>>
    /\ <<calls[1].ret, calls[2].ret, calls[3].ret>> = <<TRUE, TRUE, FALSE>>
    /\ be.violations = <<LatencyViolation>>

\* C5: after any sequence of record_turn calls, also calls made after a
\* violation, the value the latest call returned is true iff
\* get_status()['within_budget'] is true.
C5_ReturnIffWithinBudget ==
    Len(calls) > 0 => (Last(calls).ret <=> get_status(be).within_budget)

CheckFails(name, b) ==
    CASE name = TurnViolation -> b.metrics.turns_used >= b.max_turns
      [] name = LatencyViolation ->
            b.metrics.total_latency_ms > b.max_latency_ms_avg * b.metrics.turns_used
      [] name = CostViolation ->
            b.metrics.estimated_cost_usd > b.max_cost_usd_per_session

\* C6: one record_turn call evaluates the three checks whatever the others
\* give: the violations list grows by exactly one named entry per failing
\* check, none for a passing one, and the call returns false iff an entry was
\* added.
C6_ChecksIndependent ==
    Len(calls) > 0 =>
        LET added == SelectSeq(<<TurnViolation, LatencyViolation, CostViolation>>,
                               LAMBDA name : CheckFails(name, be))
        IN  /\ be.violations = Last(calls).before \o added
            /\ Last(calls).ret = FALSE <=> added # <<>>

\* one call has failed the three checks at once
C6_Witness ==
    /\ Len(calls) > 0
    /\ Last(calls).before = <<>>
    /\ be.violations = <<TurnViolation, LatencyViolation, CostViolation>>
    /\ Last(calls).ret = FALSE

\* C7: a conversation that stops with the number of turns at the ceiling
\* min(budgets.max_turns, conversation.max_turns), no latency or cost limit
\* being exceeded, ends for reason max_turns: the enforcer holds no violation
\* and main recorded none.
C7_CeilingIsNotAViolation ==
    (/\ pc = "eval"
     /\ Turns(messages) = Min(Sc.budgets.max_turns, Sc.conversation.max_turns)
     /\ LatencyViolation \notin Range(be.violations)
     /\ CostViolation \notin Range(be.violations))
    => be.violations = <<>> /\ budget_violations = <<>>

\* C8 as stated: whatever the budget, the first thing main does in a
\* scenario is to produce first_message, append it as the first user message
\* and send it, before any budget check.
C8_FirstMessageUnconditional ==
    pc = "eval" =>
        /\ Len(trace) >= 2
        /\ trace[1].call = "first_message"
        /\ trace[2].call = "send"
        /\ Len(messages) >= 1
        /\ messages[1] = [role |-> "user", content |-> "initial_user_msg"]

\* C8 amended: main first consults the loop guard should_continue of the
\* fresh enforcer.  With budgets.max_turns >= 1 the guard is true and
\* first_message is produced, appended as the first user message and sent
\* before any turn is recorded; with budgets.max_turns <= 0 the guard is
\* false and no message is produced or sent.
C8_FirstMessageAfterGuard ==
    (pc \in {"send", "eval"} \/ (pc = "while" /\ turn > 0)) =>
        IF Sc.budgets.max_turns >= 1
        THEN /\ Len(trace) >= 2
             /\ trace[1] = [call |-> "budget.should_continue", result |-> "true"]
             /\ trace[2] = [call |-> "first_message", result |-> "message"]
             /\ Len(trace) >= 3 => trace[3].call = "send"
             /\ messages[1] = [role |-> "user", content |-> "initial_user_msg"]
        ELSE /\ trace = <<[call |-> "budget.should_continue", result |-> "false"]>>
             /\ messages = <<>>
             /\ be.metrics.turns_used = 0

\* the first message is in the transcript and with the agent, no turn recorded
C8_Witness ==
    /\ pc = "send"
    /\ Sc.budgets.max_turns >= 1
    /\ messages = <<[role |-> "user", content |-> "initial_user_msg"]>>
    /\ be.metrics.turns_used = 0

\* C9: after a turn within budget, once strategy.should_continue has
\* returned false or next_message has returned no message, the conversation
\* is over: no user message is appended, the agent is not called and no turn
\* is recorded.
C9_StrategyStopEndsConversation ==
    /\ [](\A i \in 1..Len(trace) : trace[i] \in StrategyStops => i = Len(trace))
    /\ [][ (trace # <<>> /\ Last(trace) \in StrategyStops
            /\ ~(pc = "for" /\ pc' = "while"))
           => /\ trace' = trace
              /\ messages' = messages
              /\ be' = be
              /\ Last(messages).role = "assistant"
              /\ pc' \in {"eval", "for", "done"} ]_vars

\* next_message returned no message after a first turn within budget
C9_Witness ==
    /\ pc = "done"
    /\ Len(trace) > 0
    /\ Last(trace) = [call |-> "next_message", result |-> "none"]
    /\ Len(messages) = 2
    /\ be.metrics.turns_used = 1
    /\ be.violations = <<>>

\* C10: a failing agent call does not escape the batch: when main stops,
\* every valid scenario of the suite has its SessionResult and the results
\* are written.
C10_AgentFailureContained ==
    pc \in {"done", "crashed"} =>
        /\ written
        /\ \A i \in 1..Len(suite) :
              validate_scenario(suite[i]) = {} =>
                  \E k \in 1..Len(sessions) : sessions[k].scenario_id = i

C12_InvalidScenarioSkipped ==
    /\ [][(pc = "for" /\ idx <= Len(suite) /\ suite[idx].missing # {}) =>
              /\ idx' = idx + 1
              /\ pc' = "for"
              /\ UNCHANGED <<be, messages, trace, strategy, turn, last_resp,
                             budget_violations, sessions>>]_vars
    /\ [](\A k \in 1..Len(sessions) : suite[sessions[k].scenario_id].missing = {})
    /\ [](pc = "done" =>
              \A i \in 1..Len(suite) :
                  suite[i].missing = {} =>
                      \E k \in 1..Len(sessions) : sessions[k].scenario_id = i)

\* a run ended whose first scenario was invalid and whose second one was run
C12_Witness ==
    /\ pc = "done"
    /\ suite[1].missing # {}
    /\ "dsl_version" \notin suite[1].missing
    /\ suite[2].missing = {}
    /\ Len(sessions) = 1
    /\ sessions[1].scenario_id = 2
    /\ Len(sessions[1].messages) >= 2


\* the mode the run asks for and whether it comes with a key for the
\* external judge
RequestedMode ==
    IF env.args.judge_config # None THEN env.args.judge_config.mode
    ELSE env.args.judge_mode

CredentialsAbsent ==
    /\ env.environ.LLM_JUDGE_API_KEY = NoKey
    /\ IF env.args.judge_config # None
       THEN \/ env.args.judge_config.llm_config = None
            \/ env.args.judge_config.llm_config.api_key = NoKey
       ELSE env.args.llm_api_key = NoKey

\* C13: when the judge mode is llm or hybrid and there is no key for the
\* external judge, neither in the environment nor on the command line, or no
\* llm_config at all, the run ends in judge initialisation: main never reaches
\* its scenario loop, no scenario is loaded and no agent call is made.
C13_MissingCredentialsFatal ==
    (pc # "start" /\ Len(suite) > 0 /\ RequestedMode \in {"llm", "hybrid"}
         /\ CredentialsAbsent) =>
        /\ pc = "failed"
        /\ idx = 1
        /\ trace = <<>>
        /\ sessions = <<>>


\* the evaluations asked of a judge that uses the external judge
ExternalCalls ==
    {i \in 1..Len(calls) : pc = "judge" /\ judge.mode \in {"llm", "hybrid"}}

\* the call to the external judge failed or its output is malformed
Malformed(outcome) ==
    \/ outcome.kind \in {"exception", "no json", "invalid json", "not an object"}
    \/ /\ outcome.kind = "object"
       /\ \E k \in SoftMetricKeys : outcome.fields[k].t \in {"null", "string"}

\* C14: whenever the call to the external judge raises, or its output holds no
\* JSON, invalid JSON, a JSON value that is no object, or an object with a
\* null or non-numeric score, evaluate_response raises nothing and returns
\* relevance = completeness = groundedness = 0.5 with confidence = 0.
C14_JudgeFailureNeutral ==
    \A i \in ExternalCalls :
        Malformed(calls[i].req.outcome) =>
            /\ calls[i].ret.raised = "none"
            /\ calls[i].ret.llm_result =
                   [relevance |-> 500, completeness |-> 500, groundedness |-> 500,
                    confidence |-> 0]

\* C15: in every judge mode and for every request, external-judge output and
\* pair of hybrid weights, each soft-metric score that evaluate returns lies
\* between 0 and 1.
C15_ScoresInUnitInterval ==
    \A i \in 1..Len(calls) :
        (pc = "judge" /\ calls[i].ret.raised = "none") =>
            \A k \in SoftMetricKeys :
                /\ calls[i].ret.soft_metrics[k] >= 0
                /\ calls[i].ret.soft_metrics[k] <= 1000

\* the scores the two judges give for a request
HeuristicOf(req) ==
    heuristic_soft_metrics(req.ug_tokens, req.at_tokens, req.has_numbers,
                           req.promise_to_pay)

ExternalOf(req) == evaluate_response(req.outcome).result

\* C16: an evaluation in hybrid mode returns, for each metric, heuristic *
\* w_heuristic + external * w_external; with the weights 1.0 and 0.0 that is
\* the heuristic score itself and with 0.0 and 1.0 the external score itself;
\* hybrid_breakdown holds the heuristic, the external and the combined scores
\* and soft_metrics are the combined ones.
C16_HybridIsWeightedSum ==
    \A i \in 1..Len(calls) :
        (pc = "judge" /\ judge.mode = "hybrid" /\ calls[i].ret.raised = "none") =>
            LET req == calls[i].req
                ret == calls[i].ret
                w == judge.hybrid_weights
            IN  /\ ret.hybrid_breakdown.heuristic = HeuristicOf(req)
                /\ \A k \in SoftMetricKeys :
                       /\ ret.hybrid_breakdown.llm[k] = ExternalOf(req)[k]
                       /\ ret.soft_metrics[k] * 10 =
                              HeuristicOf(req)[k] * w.heuristic
                              + ExternalOf(req)[k] * w.llm
                       /\ (w.heuristic = 10 /\ w.llm = 0) =>
                              ret.soft_metrics[k] = HeuristicOf(req)[k]
                       /\ (w.heuristic = 0 /\ w.llm = 10) =>
                              ret.soft_metrics[k] = ExternalOf(req)[k]
                /\ ret.hybrid_breakdown.combined = ret.soft_metrics

\* a hybrid judge with the weights 1.0 and 0.0 returned the heuristic scores
\* although the external judge scored differently
C16_Witness ==
    /\ pc = "judge"
    /\ judge.mode = "hybrid"
    /\ judge.hybrid_weights = [heuristic |-> 10, llm |-> 0]
    /\ Len(calls) = 1
    /\ calls[1].ret.raised = "none"
    /\ calls[1].req.outcome.kind = "object"
    /\ calls[1].ret.hybrid_breakdown.llm.relevance = 700
    /\ calls[1].ret.soft_metrics.relevance = 500
    /\ calls[1].ret.soft_metrics.groundedness = 850


\* the judge scored the configured metric m and the score meets its threshold
\* expression as the expression reads
ReadsAsMet(th, metrics, m) ==
    /\ m \in DOMAIN metrics
    /\ ThresholdOperator(th[m]) = <<">", "=">> =>
           metrics[m] >= ThresholdNumber(th[m])

\* C17: a threshold expression <operator><number> with the operator >= is
\* met iff the score is at least the number; with any other operator (>, <,
\* <=, ==) and a number of any length it is accepted without an error and
\* met by every score.  So the evaluation of a scenario never ends the run,
\* and a session whose hard assertions hold and whose budget is kept passes
\* iff every scored metric with a >= threshold reaches its number.
C17_ThresholdOperators ==
    /\ pc = "crashed" => Last(trace) = [call |-> "send", result |-> "raise"]
    /\ \A k \in 1..Len(sessions) :
           LET s == sessions[k]
               th == suite[s.scenario_id].oracle.soft_metrics
           IN  (hard_ok(s.hard_results) /\ s.budget_violations = <<>>) =>
                   (s.passed <=>
                       \A m \in DOMAIN th \cap DOMAIN s.metrics :
                           ReadsAsMet(th, s.metrics, m))

\* C18: the soft pass is the conjunction over every metric configured in
\* oracle.soft_metrics: a session of a scenario that configures a >=
\* threshold some metric name does not reach, a name the judge does not
\* score included, has not passed.
C18_SoftPassOverConfigured ==
    \A k \in 1..Len(sessions) :
        LET s == sessions[k]
            th == suite[s.scenario_id].oracle.soft_metrics
        IN  (\E m \in DOMAIN th : ~ReadsAsMet(th, s.metrics, m)) => ~s.passed


\* C19: for a seed manager with a global seed, get_scenario_seed returns the
\* same value for the same scenario id on every call, whatever was done before
\* or in between (get_scenario_seed for other ids, set_scenario_seed,
\* reset_to_base_seed, random draws, scenario managers created or reseeded),
\* and a call changes neither the manager (current_seed, seed_history) nor
\* the state of the generator.
C19_ScenarioSeedStable ==
    /\ [](\A i, j \in 1..Len(calls) :
              (/\ pc = "seed"
               /\ sm.current_seed # NoSeed
               /\ calls[i].op = "get_scenario_seed"
               /\ calls[j].op = "get_scenario_seed"
               /\ calls[i].scenario_id = calls[j].scenario_id) =>
                  calls[i].ret = calls[j].ret)
    /\ [][(/\ pc = "seed"
           /\ sm.current_seed # NoSeed
           /\ Len(calls') = Len(calls) + 1
           /\ Last(calls').op = "get_scenario_seed") =>
              (sm' = sm /\ rng' = rng)]_vars

\* the same id asked twice with the generator reseeded for another scenario
\* and drawn from in between
C19_Witness ==
    /\ pc = "seed"
    /\ sm.current_seed # NoSeed
    /\ Len(calls) = 3
    /\ calls[1].op = "get_scenario_seed" /\ calls[1].scenario_id = "S1"
    /\ calls[2].op = "set_scenario_seed" /\ calls[2].scenario_id = "S2"
    /\ calls[3].op = "get_scenario_seed" /\ calls[3].scenario_id = "S1"
    /\ calls[1].ret = calls[3].ret
    /\ rng.seed # sm.current_seed
    /\ Len(sm.seed_history) = 2

\* C20: the global seed is the explicit integer seed whenever one is supplied;
\* otherwise the hash of the custom seed string whenever one is supplied; it
\* is derived from the time only when neither was supplied.
C20_SeedPriority ==
    pc = "seed" =>
        LET c == sm.config
        IN  /\ c.seed # NoSeed => sm.current_seed = c.seed
            /\ (c.seed = NoSeed /\ c.custom_seed # NoString) =>
                   sm.current_seed = hash_to_seed(custom_text(c.custom_seed))
            /\ sm.current_seed \in Clock =>
                   (c.seed = NoSeed /\ c.custom_seed = NoString)

\* the steps that are a set_local_seed or a reset_to_scenario_seed call
LocalReseed ==
    /\ Len(calls') = Len(calls) + 1
    /\ Last(calls').op \in {"set_local_seed", "reset_to_scenario_seed"}

\* C21: set_local_seed and reset_to_scenario_seed of a scenario manager leave
\* the parent stream alone: the parent's current_seed and seed_history are
\* unchanged and the generator the parent's get_random_int, get_random_choice
\* and get_random_float draw from is in the state it was in before the call,
\* so the values the parent returns next are the ones it would have returned.
C21_LocalSeedLeavesParentStream ==
    [][LocalReseed =>
           /\ sm'.current_seed = sm.current_seed
           /\ sm'.seed_history = sm.seed_history
           /\ rng' = rng]_vars

\* the scenario id a scenario of the suite gives the seed manager
SeedIdOf(sc) == IF sc.id = 1 THEN "S1" ELSE "S2"

\* C22: for every scenario the driver runs, once strategy.first_message has
\* been called the generator has been reseeded for the scenario: it is in the
\* state random.seed leaves it in when given the seed derived from the global
\* seed and the scenario's id.
C22_ScenarioSeedScoped ==
    (pc = "send" /\ turn = 0) =>
        rng = random_seed(get_scenario_seed(sm, rng, SeedIdOf(Sc)).ret)

\* the rule kinds run_hard_assertions knows
KnownKinds ==
    {"contains_any", "not_contains_any", "matches_regex", "jsonpath_exists",
     "jsonpath_equals", "number_between"}

\* the rules of a logged call and what each evaluates to on the call's inputs
RulesOf(c) == c.req.oracles.hard_assertions

Verdict(c, j) ==
    rule_passed(RulesOf(c)[j], get_last_agent_text(c.req.conversation, 2),
                c.req.agent_structured)

\* C23: a rule whose kind is not one of the six known kinds evaluates to
\* false without raising, and the overall hard pass of an oracle that holds
\* such a rule is false.
C23_UnknownKindFailsClosed ==
    \A i \in 1..Len(calls) :
        \A j \in 1..Len(RulesOf(calls[i])) :
            RulesOf(calls[i])[j].kind \notin KnownKinds =>
                /\ Verdict(calls[i], j) = [raised |-> "none", passed |-> FALSE]
                /\ calls[i].ret.raised = "none"
                /\ ~hard_ok(calls[i].ret.results)

\* C24: the overall hard pass is the conjunction over the rules of the
\* oracle's list: true for the empty list and when every rule evaluates
\* true, false when at least one rule of the list evaluates false, whatever
\* the names of the rules.
C24_HardPassIsConjunction ==
    \A i \in 1..Len(calls) :
        calls[i].ret.raised = "none" =>
            (hard_ok(calls[i].ret.results)
                <=> \A j \in 1..Len(RulesOf(calls[i])) : Verdict(calls[i], j).passed)

\* the positions of the assistant messages of a transcript and the text made
\* of the last two assistant messages, a space between them
AssistantAt(conv) == {i \in 1..Len(conv) : conv[i].role = "assistant"}

LastTwoAssistant(conv) ==
    LET A == AssistantAt(conv)
        last == CHOOSE i \in A : \A j \in A : j <= i
        B == A \ {last}
        prev == CHOOSE i \in B : \A j \in B : j <= i
    IN  IF A = {} THEN <<>>
        ELSE IF B = {} THEN conv[last].content
        ELSE conv[prev].content \o <<" ">> \o conv[last].content

\* v occurs in t, letter case ignored
OccursIn(v, t) ==
    \E i \in 0..(Len(t) - Len(v)) :
        \A j \in 1..Len(v) : lower_char(t[i + j]) = lower_char(v[j])

\* a logged call whose oracle is contains_any(values) as r1 and
\* not_contains_any(values) as r2
TextCall(c) ==
    /\ Len(RulesOf(c)) = 2
    /\ RulesOf(c)[1].kind = "contains_any"
    /\ RulesOf(c)[2].kind = "not_contains_any"

\* C25: contains_any(values) is true iff some value occurs, letter case
\* ignored, in the text of the last two assistant messages (user messages and
\* earlier assistant messages play no part), and not_contains_any(values) is
\* the negation of contains_any(values).
C25_TextRulesSeeLastTwo ==
    \A i \in 1..Len(calls) :
        TextCall(calls[i]) =>
            LET values == RulesOf(calls[i])[1].values
                text == LastTwoAssistant(calls[i].req.conversation)
            IN  /\ calls[i].ret.raised = "none"
                /\ calls[i].ret.results["r1"]
                       <=> \E v \in 1..Len(values) : OccursIn(values[v], text)
                /\ calls[i].ret.results["r2"] <=> ~calls[i].ret.results["r1"]

\* a transcript of three assistant messages and a user message whose first
\* assistant message holds the value and whose last two do not
C25_Witness ==
    /\ Len(calls) = 1
    /\ TextCall(calls[1])
    /\ LET conv == calls[1].req.conversation
       IN  /\ Cardinality(AssistantAt(conv)) = 3
           /\ Len(conv) = 4
           /\ RulesOf(calls[1])[1].values = <<<<"a">>>>
           /\ OccursIn(<<"a">>, conv[CHOOSE i \in AssistantAt(conv) :
                                        \A j \in AssistantAt(conv) : i <= j].content)
    /\ ~calls[1].ret.results["r1"]
    /\ calls[1].ret.results["r2"]

\* the value a path's segments lead to in a payload: a segment resolves when
\* it is a key of the map reached or a decimal index within the array reached
RECURSIVE Reach(_, _)
Reach(cur, keys) ==
    IF Len(keys) = 0 THEN [found |-> TRUE, value |-> cur]
    ELSE LET k == Head(keys)
             resolves_key == cur.t = "dict" /\ k \in DOMAIN cur.entries
             resolves_index ==
                 /\ cur.t = "list"
                 /\ Len(k) > 0
                 /\ \A i \in 1..Len(k) : IsDigit(k[i])
                 /\ DecimalValue(k) < Len(cur.items)
         IN  IF resolves_key THEN Reach(cur.entries[k], Tail(keys))
             ELSE IF resolves_index THEN Reach(cur.items[DecimalValue(k) + 1], Tail(keys))
             ELSE [found |-> FALSE, value |-> Null]

Traversal(c) ==
    LET path == RulesOf(c)[1].path
    IN  IF startswith_root(path)
        THEN Reach(c.req.agent_structured, split(SubSeq(path, 3, Len(path))))
        ELSE [found |-> FALSE, value |-> Null]

\* C26: for every payload and path, jsonpath_exists is true iff the path
\* starts with '$.', every segment resolves and the value reached is not
\* null; jsonpath_equals is true iff the same traversal succeeds and the
\* value reached equals the expected value; neither raises.
C26_JsonPathTraversal ==
    \A i \in 1..Len(calls) :
        LET c == calls[i]
        IN  /\ (Len(RulesOf(c)) = 1 /\ RulesOf(c)[1].kind = "jsonpath_exists") =>
                   /\ c.ret.raised = "none"
                   /\ c.ret.results["r1"]
                          <=> (Traversal(c).found /\ Traversal(c).value # Null)
            /\ (Len(RulesOf(c)) = 1 /\ RulesOf(c)[1].kind = "jsonpath_equals") =>
                   /\ c.ret.raised = "none"
                   /\ c.ret.results["r1"]
                          <=> (/\ Traversal(c).found
                               /\ Traversal(c).value = RulesOf(c)[1].expected_value)

\* the calls of the agent made so far in the current scenario
AgentCalls(tr) == Cardinality({i \in 1..Len(tr) : tr[i].call = "send"})

WellFormedTranscript(msgs, b) ==
    /\ Len(msgs) = 2 * b.metrics.turns_used
    /\ \A i \in 1..Len(msgs) :
           msgs[i].role = IF i % 2 = 1 THEN "user" ELSE "assistant"
    /\ Turns(msgs) = b.metrics.turns_used

\* C28: whenever the loop condition is tested and when the conversation has
\* ended without an exception of the agent call, the transcript holds
\* 2 * turns_used messages whose roles alternate from user to assistant,
\* turns_used is the number of assistant messages, and within a scenario the
\* transcript only grows at its end.
C28_TranscriptAlternates ==
    [][/\ pc' \in {"while", "eval"} => WellFormedTranscript(messages', be')
       /\ (pc \in {"while", "send", "eval"} /\ pc' \in {"while", "send", "eval"}) =>
              /\ Len(messages) <= Len(messages')
              /\ SubSeq(messages', 1, Len(messages)) = messages]_vars

\* a conversation of MaxBudgetTurns turns has ended
C28_Witness ==
    /\ pc = "eval"
    /\ be.metrics.turns_used = MaxBudgetTurns
    /\ Len(messages) = 2 * MaxBudgetTurns
    /\ messages[1].role = "user"
    /\ Last(messages).role = "assistant"

\* C29: the violations list of an enforcer only grows at its end; once it
\* holds an entry, should_continue() is false and within_budget is false
\* after every later call; every record_turn call adds exactly 1 to
\* turns_used, violating or not.
C29_ViolationsSticky ==
    [][/\ Len(be.violations) <= Len(be'.violations)
       /\ SubSeq(be'.violations, 1, Len(be.violations)) = be.violations
       /\ Len(be.violations) > 0 =>
              /\ ~should_continue(be')
              /\ ~get_status(be').within_budget
       /\ Len(calls') = Len(calls) + 1 =>
              be'.metrics.turns_used = be.metrics.turns_used + 1]_vars

\* a latency violation recorded by the first call is followed by calls fast
\* enough to bring the average back under the limit, the last of which
\* passes its three checks
C29_Witness ==
    /\ Len(calls) = MaxCalls
    /\ calls[1].ret = FALSE
    /\ Last(calls).ret = TRUE
    /\ Len(be.violations) > 0
    /\ \A i \in 1..Len(be.violations) : be.violations[i] = LatencyViolation
    /\ ~average_latency_exceeds(be.metrics, be.max_latency_ms_avg)
    /\ be.metrics.turns_used = MaxCalls
    /\ ~should_continue(be)

\* C30: FlowIntentStrategy.should_continue, called by the driver after a
\* turn, returns true iff fewer than conversation.max_turns turns have been
\* taken.
C30_StrategyCountsTurns ==
    [][(/\ pc = "send"
        /\ Len(trace') > Len(trace)
        /\ Last(trace').call = "strategy.should_continue"
        /\ Sc.conversation.tester_strategy = "FlowIntent") =>
           (Last(trace').result = "true"
                <=> Turns(messages') < Sc.conversation.max_turns)]_vars

====
